---- MODULE Spec2Model ----
(***************************************************************************)
(* A model of the dns-benchmark engine (github.com/taihen/dns-benchmark):  *)
(*   - the benchmark run of pkg/dnsquery (worker pool, rate limiter, two   *)
(*     phases, serial drain) and the metrics pass of pkg/analysis;         *)
(*   - the process-wide QUIC connection pool with its sweeper goroutine;   *)
(*   - the time budget of one query on each of the five transports.        *)
(*   - single calls of the endpoint parser, the probe predicates and the   *)
(*     ranking of results.                                                 *)
(* The specifications of the module: BenchSpec, its fair FairBenchSpec,    *)
(* PoolSpec, QuerySpec and FnSpec.                                         *)
(***************************************************************************)
EXTENDS Integers, Sequences, FiniteSets, TLC

VARIABLES
    \* ---- benchmark run (pkg/dnsquery Benchmarker, pkg/analysis) ----
    cfg,          \* config.Config of the run
    pc,           \* position of the main goroutine
    Results,      \* analysis.BenchmarkResults.Results: server key -> ServerResult
    Limiter,      \* rate.Limiter held by the Benchmarker
    jobs,         \* channel of queryJob of the current phase
    jobsClosed,   \* close(jobs) has happened
    resultsChan,  \* channel of queryJobResult of the current phase
    chanCap,      \* capacity both channels were made with
    todo,         \* jobs the producer loop has still to send
    wpc,          \* position of each queryWorker goroutine
    wjob,         \* job a worker took from the channel
    wres,         \* QueryResult a worker obtained
    hasToken,     \* the worker passed Limiter.Wait for the job it holds
    idx,          \* index of the server loop the main goroutine is in
    nq,           \* what the transport has seen: the number of queries issued, per
                  \* step of the run, and the latency answers it gave, in their order
    \* ---- QUIC connection pool (globalQuicPool) and its callers ----
    connections,  \* quicConnectionPool.connections: address -> list of quicConnection
    cleanup,      \* the cleanup channel is closed
    cleanupDone,  \* the cleanupDone channel is closed
    sweeper,      \* the startCleanup goroutine: "running" or "exited"
    shutdown,     \* the caller of shutdownPool: position, calls made, panic
    now,          \* time.Now(), in seconds
    sessions,     \* every QUIC session dialled: address, open, number of holders
    load,         \* what the environment of the pool may still do
    \* ---- one query and its clock ----
    q,            \* transport, deadline T, stage, seconds elapsed, outcome
    \* ---- one call of a function of pkg/config, pkg/dnsquery or pkg/output ----
    fn            \* the function called, its argument, and its result once returned

benchVars == <<cfg, pc, Results, Limiter, jobs, jobsClosed, resultsChan,
               chanCap, todo, wpc, wjob, wres, hasToken, idx, nq>>

poolVars == <<connections, cleanup, cleanupDone, sweeper, shutdown, now,
              sessions, load>>

vars == <<benchVars, poolVars, q, fn>>

-----------------------------------------------------------------------------
(* Bounds of the model *)

MaxServers == 2
MaxN == 2
MaxW == 2
MaxJobs == 2
MaxLatency == 2
MaxSeries == 2
MaxRate == 1
MaxGets == 2
MaxTicks == 3
MaxPeerCloses == 1
MaxDialFailures == 1
MaxShutdownCalls == 2
MaxOverflow == 1
MaxBurstReturns == 1
MaxBurstTicks == 1
MaxTimeout == 3
MaxElapsed == 12
MaxCountN == 5
MaxList == 3
MaxAnswers == 1
MaxRanked == 2
MaxMean == 2

-----------------------------------------------------------------------------
(* Small helpers *)

Min(a, b) == IF a < b THEN a ELSE b

RECURSIVE SumSeq(_)
SumSeq(s) == IF s = <<>> THEN 0 ELSE Head(s) + SumSeq(Tail(s))

RECURSIVE SeqOfN(_, _)
SeqOfN(x, n) == IF n <= 0 THEN <<>> ELSE <<x>> \o SeqOfN(x, n - 1)

RECURSIVE FlattenSeq(_)
FlattenSeq(ss) == IF ss = <<>> THEN <<>> ELSE Head(ss) \o FlattenSeq(Tail(ss))

-----------------------------------------------------------------------------
(* Endpoints: config.ServerInfo and its String() *)

IPLiterals == {"1.1.1.1", "8.8.8.8"}

AllServers ==
    << [Protocol |-> "udp", Host |-> "1.1.1.1", Port |-> "53", Hostname |-> "1.1.1.1"],
       [Protocol |-> "dot", Host |-> "8.8.8.8", Port |-> "853", Hostname |-> "8.8.8.8"],
       [Protocol |-> "doq", Host |-> "dns.adguard.com", Port |-> "853", Hostname |-> "dns.adguard.com"],
       [Protocol |-> "tcp", Host |-> "1.1.1.1", Port |-> "53", Hostname |-> "1.1.1.1"],
       [Protocol |-> "doh", Host |-> "dns.google", Port |-> "443", Hostname |-> "dns.google"] >>

\* The canonical string as <<scheme, host, port>>.
ServerString(si) ==
    CASE si.Protocol = "doh" -> <<"https://", si.Host, si.Port>>
      [] si.Protocol = "dot" ->
            IF si.Hostname # "" /\ si.Hostname \notin IPLiterals
            THEN <<"tls://", si.Hostname, si.Port>>
            ELSE <<"tls://", si.Host, si.Port>>
      [] si.Protocol = "doq" ->
            IF si.Hostname # "" /\ si.Hostname \notin IPLiterals
            THEN <<"quic://", si.Hostname, si.Port>>
            ELSE <<"quic://", si.Host, si.Port>>
      [] si.Protocol = "tcp" -> <<"tcp://", si.Host, si.Port>>
      [] OTHER -> <<"", si.Host, si.Port>>

ServerKeys(servers) == {ServerString(servers[i]) : i \in 1..Len(servers)}

-----------------------------------------------------------------------------
(* Query results: dnsquery.QueryResult *)

NoResponse == [Rcode |-> "none", Answer |-> <<>>, AuthenticatedData |-> FALSE]

Latencies == 1..MaxLatency

AccuracyCheckIP == "192.0.2.10"

\* The shapes of response the probes tell apart.
Responses ==
    { [Rcode |-> "NOERROR",  Answer |-> <<"192.0.2.10">>, AuthenticatedData |-> TRUE],
      [Rcode |-> "NOERROR",  Answer |-> <<"192.0.2.11">>, AuthenticatedData |-> FALSE],
      [Rcode |-> "NOERROR",  Answer |-> <<>>,             AuthenticatedData |-> FALSE],
      [Rcode |-> "NXDOMAIN", Answer |-> <<>>,             AuthenticatedData |-> FALSE],
      [Rcode |-> "REFUSED",  Answer |-> <<>>,             AuthenticatedData |-> FALSE] }

ErrorResults ==
    { [Latency |-> 0, Response |-> NoResponse, Error |-> e] : e \in {"timeout", "failed"} }

OkResult(l, r) == [Latency |-> l, Response |-> r, Error |-> "nil"]

ZeroQueryResult == [Latency |-> 0, Response |-> NoResponse, Error |-> "nil"]

\* What the transport may hand back for a job: a latency job is answered or
\* fails; a probe job is answered with any response shape or fails.
QueryOutcomes(job) ==
    IF job.checkType = ""
    THEN ErrorResults \cup
         {OkResult(l, [Rcode |-> "NXDOMAIN", Answer |-> <<>>, AuthenticatedData |-> FALSE]) :
            l \in Latencies}
    ELSE IF job.checkType = "dotcom"
    THEN ErrorResults \cup
         {OkResult(l, [Rcode |-> "NXDOMAIN", Answer |-> <<>>, AuthenticatedData |-> FALSE]) :
            l \in Latencies}
    ELSE ErrorResults \cup {OkResult(1, r) : r \in Responses}

-----------------------------------------------------------------------------
(* Probe predicates *)

checkADFlag(result) ==
    IF result.Error # "nil" \/ result.Response = NoResponse
    THEN FALSE
    ELSE result.Response.AuthenticatedData

\* checkNXDOMAINHijack that does not look at the answer section.
checkNXDOMAINHijackAnyAnswer(result) ==
    IF result.Error # "nil" \/ result.Response = NoResponse THEN FALSE
    ELSE IF result.Response.Rcode = "NXDOMAIN" THEN FALSE
    ELSE IF result.Response.Rcode = "NOERROR" THEN TRUE
    ELSE FALSE

checkNXDOMAINHijack(result) ==
    IF result.Error # "nil" \/ result.Response = NoResponse THEN FALSE
    ELSE IF result.Response.Rcode = "NXDOMAIN" THEN FALSE
    ELSE IF result.Response.Rcode = "NOERROR" /\ Len(result.Response.Answer) > 0 THEN TRUE
    ELSE FALSE

\* checkRebindingProtection that takes a failed query as not blocked.
checkRebindingProtectionErrorOpen(result) ==
    IF result.Error # "nil" THEN FALSE
    ELSE IF result.Response = NoResponse THEN TRUE
    ELSE IF result.Response.Rcode # "NOERROR" THEN TRUE
    ELSE IF Len(result.Response.Answer) = 0 THEN TRUE
    ELSE FALSE

checkRebindingProtection(result) ==
    IF result.Error # "nil" THEN TRUE
    ELSE IF result.Response = NoResponse THEN TRUE
    ELSE IF result.Response.Rcode # "NOERROR" THEN TRUE
    ELSE IF Len(result.Response.Answer) = 0 THEN TRUE
    ELSE FALSE

checkResponseAccuracy(result, expectedIP) ==
    IF result.Error # "nil" \/ result.Response = NoResponse
       \/ result.Response.Rcode # "NOERROR"
    THEN FALSE
    ELSE \E i \in 1..Len(result.Response.Answer) : result.Response.Answer[i] = expectedIP

-----------------------------------------------------------------------------
(* Metrics: analysis.ServerResult *)

\* A Go pointer field: <<>> is nil, <<v>> points to v.
Nil == <<>>

Ptr(v) == <<v>>

NewServerResult(key) ==
    [ ServerAddress |-> key,
      CachedLatencies |-> <<>>, UncachedLatencies |-> <<>>,
      Errors |-> 0, TotalQueries |-> 0,
      SupportsDNSSEC |-> Nil, HijacksNXDOMAIN |-> Nil, BlocksRebinding |-> Nil,
      IsAccurate |-> Nil, DotcomLatency |-> Nil,
      AvgCachedLatency |-> 0, StdDevCachedLatency |-> 0,
      AvgUncachedLatency |-> 0, StdDevUncachedLatency |-> 0,
      Reliability |-> <<0, 1>> ]

\* math.Round of a non-negative quotient a/b: half away from zero.
RoundDiv(a, b) == (2 * a + b) \div (2 * b)

calculateAverage(latencies) ==
    IF Len(latencies) = 0 THEN 0
    ELSE RoundDiv(SumSeq(latencies), Len(latencies))

RECURSIVE SumSquares(_, _)
SumSquares(s, avg) ==
    IF s = <<>> THEN 0
    ELSE (Head(s) - avg) * (Head(s) - avg) + SumSquares(Tail(s), avg)

\* math.Round(math.Sqrt(ss / (n-1))): the r with (r - 1/2)^2 <= ss/(n-1) < (r + 1/2)^2.
calculateStdDev(latencies, average) ==
    IF Len(latencies) < 2 THEN 0
    ELSE LET ss == SumSquares(latencies, average)
             d  == Len(latencies) - 1
         IN  CHOOSE r \in 0..(ss + 1) :
                /\ (r = 0 \/ (2 * r - 1) * (2 * r - 1) * d <= 4 * ss)
                /\ 4 * ss < (2 * r + 1) * (2 * r + 1) * d

\* CalculateMetrics without the guard on the attempt count: no attempt reads as 100 %.
CalculateMetricsNoGuard(sr) ==
    LET totalLatencyQueriesAttempted == sr.TotalQueries
        successfulLatencyQueries == Len(sr.CachedLatencies) + Len(sr.UncachedLatencies)
        failedLatencyQueries == totalLatencyQueriesAttempted - successfulLatencyQueries
        avgC == calculateAverage(sr.CachedLatencies)
        avgU == calculateAverage(sr.UncachedLatencies)
    IN  [ sr EXCEPT
            !.Reliability = IF totalLatencyQueriesAttempted > 0
                            THEN <<successfulLatencyQueries * 100, totalLatencyQueriesAttempted>>
                            ELSE <<100, 1>>,
            !.Errors = IF totalLatencyQueriesAttempted > 0 THEN failedLatencyQueries ELSE 0,
            !.AvgCachedLatency = IF Len(sr.CachedLatencies) > 0 THEN avgC ELSE 0,
            !.StdDevCachedLatency =
                IF Len(sr.CachedLatencies) > 0 THEN calculateStdDev(sr.CachedLatencies, avgC) ELSE 0,
            !.AvgUncachedLatency = IF Len(sr.UncachedLatencies) > 0 THEN avgU ELSE 0,
            !.StdDevUncachedLatency =
                IF Len(sr.UncachedLatencies) > 0 THEN calculateStdDev(sr.UncachedLatencies, avgU) ELSE 0 ]

\* Reliability is kept as the exact quotient <<numerator, denominator>>.
CalculateMetrics(sr) ==
    LET totalLatencyQueriesAttempted == sr.TotalQueries
        successfulLatencyQueries == Len(sr.CachedLatencies) + Len(sr.UncachedLatencies)
        failedLatencyQueries == totalLatencyQueriesAttempted - successfulLatencyQueries
        avgC == calculateAverage(sr.CachedLatencies)
        avgU == calculateAverage(sr.UncachedLatencies)
    IN  [ sr EXCEPT
            !.Reliability = IF totalLatencyQueriesAttempted > 0
                            THEN <<successfulLatencyQueries * 100, totalLatencyQueriesAttempted>>
                            ELSE <<0, 1>>,
            !.Errors = IF totalLatencyQueriesAttempted > 0 THEN failedLatencyQueries ELSE 0,
            !.AvgCachedLatency = IF Len(sr.CachedLatencies) > 0 THEN avgC ELSE 0,
            !.StdDevCachedLatency =
                IF Len(sr.CachedLatencies) > 0 THEN calculateStdDev(sr.CachedLatencies, avgC) ELSE 0,
            !.AvgUncachedLatency = IF Len(sr.UncachedLatencies) > 0 THEN avgU ELSE 0,
            !.StdDevUncachedLatency =
                IF Len(sr.UncachedLatencies) > 0 THEN calculateStdDev(sr.UncachedLatencies, avgU) ELSE 0 ]

-----------------------------------------------------------------------------
(* The benchmark run: Benchmarker.Run and what it calls *)

Workers == 1..MaxW

NoJob == [serverInfo |-> AllServers[1], domain |-> "", queryType |-> "Cached", checkType |-> "none"]

\* NewBenchmarker: the limiter has burst 1, or is rate.Inf when the rate is not positive.
NewLimiter(rateLimit) ==
    IF rateLimit <= 0
    THEN [inf |-> TRUE, limit |-> 0, burst |-> 0, tokens |-> 0]
    ELSE [inf |-> FALSE, limit |-> rateLimit, burst |-> 1, tokens |-> 1]

\* calculateLatencyQueryCounts that gives the larger half to the cached queries.
calculateLatencyQueryCountsCachedFirst(totalQueries) ==
    IF totalQueries < 1 THEN <<0, 0>>
    ELSE IF totalQueries = 1 THEN <<0, 1>>
    ELSE IF totalQueries = 2 THEN <<1, 1>>
    ELSE IF totalQueries = 3 THEN <<1, 2>>
    ELSE <<totalQueries - (totalQueries \div 2), totalQueries \div 2>>

calculateLatencyQueryCounts(totalQueries) ==
    IF totalQueries < 1 THEN <<0, 0>>
    ELSE IF totalQueries = 1 THEN <<0, 1>>
    ELSE IF totalQueries = 2 THEN <<1, 1>>
    ELSE IF totalQueries = 3 THEN <<1, 2>>
    ELSE <<totalQueries \div 2, totalQueries - (totalQueries \div 2)>>

\* The jobs runLatencyBenchmark sends for one server, in the order of its two loops.
LatencyJobsFor(server, c) ==
    LET counts == calculateLatencyQueryCounts(c.NumQueries)
    IN  SeqOfN([serverInfo |-> server, domain |-> "example.com",
                queryType |-> "Cached", checkType |-> ""], counts[1])
        \o SeqOfN([serverInfo |-> server, domain |-> "unique.net.",
                   queryType |-> "Uncached", checkType |-> ""], counts[2])

CheckJob(server, domain, checkType) ==
    [serverInfo |-> server, domain |-> domain, queryType |-> "Cached", checkType |-> checkType]

CheckJobsFor(server, c) ==
    (IF c.CheckDNSSEC THEN <<CheckJob(server, "dnssec-ok.org.", "dnssec")>> ELSE <<>>)
    \o (IF c.CheckNXDOMAIN THEN <<CheckJob(server, "unique.example.com.", "nxdomain")>> ELSE <<>>)
    \o (IF c.CheckRebinding
        THEN <<CheckJob(server, "private.dns-rebinding-test.com.", "rebinding")>> ELSE <<>>)
    \o (IF c.AccuracyCheckFile # "" THEN <<CheckJob(server, "accuracy.test.", "accuracy")>> ELSE <<>>)
    \o (IF c.CheckDotcom THEN <<CheckJob(server, "unique.com.", "dotcom")>> ELSE <<>>)

prepareCheckJobs(servers, c) ==
    FlattenSeq([i \in 1..Len(servers) |-> CheckJobsFor(servers[i], c)])

\* The worker count of a phase: concurrency <= 0 becomes 1, and it is capped by the job count.
WorkerCount(concurrency, total) ==
    Min(IF concurrency <= 0 THEN 1 ELSE concurrency, total)

SpawnWorkers(n) == [w \in Workers |-> IF w <= n THEN "recv" ELSE "none"]

\* processLatencyResult that does not count a timeout as an error.
processLatencyResultDropTimeout(results, res) ==
    LET serverKey == ServerString(res.serverInfo)
    IN  IF serverKey \notin DOMAIN results THEN results
        ELSE IF res.result.Error = "timeout" THEN results
        ELSE IF res.result.Error # "nil"
        THEN [results EXCEPT ![serverKey].Errors = @ + 1]
        ELSE IF res.queryType = "Cached"
        THEN [results EXCEPT ![serverKey].CachedLatencies = Append(@, res.result.Latency)]
        ELSE [results EXCEPT ![serverKey].UncachedLatencies = Append(@, res.result.Latency)]

processLatencyResult(results, res) ==
    LET serverKey == ServerString(res.serverInfo)
    IN  IF serverKey \notin DOMAIN results THEN results
        ELSE IF res.result.Error # "nil"
        THEN [results EXCEPT ![serverKey].Errors = @ + 1]
        ELSE IF res.queryType = "Cached"
        THEN [results EXCEPT ![serverKey].CachedLatencies = Append(@, res.result.Latency)]
        ELSE [results EXCEPT ![serverKey].UncachedLatencies = Append(@, res.result.Latency)]

\* processCheckResult that records the dotcom latency of a failed query too.
processCheckResultDotcomAlways(results, res, c) ==
    LET serverKey == ServerString(res.serverInfo)
    IN  IF serverKey \notin DOMAIN results THEN results
        ELSE CASE res.checkType = "dnssec" ->
                    [results EXCEPT ![serverKey].SupportsDNSSEC = Ptr(checkADFlag(res.result))]
               [] res.checkType = "nxdomain" ->
                    [results EXCEPT ![serverKey].HijacksNXDOMAIN = Ptr(checkNXDOMAINHijack(res.result))]
               [] res.checkType = "rebinding" ->
                    [results EXCEPT ![serverKey].BlocksRebinding = Ptr(checkRebindingProtection(res.result))]
               [] res.checkType = "accuracy" ->
                    [results EXCEPT ![serverKey].IsAccurate =
                        Ptr(checkResponseAccuracy(res.result, c.AccuracyCheckIP))]
               [] res.checkType = "dotcom" ->
                    [results EXCEPT ![serverKey].DotcomLatency = Ptr(res.result.Latency)]
               [] OTHER -> results

processCheckResult(results, res, c) ==
    LET serverKey == ServerString(res.serverInfo)
    IN  IF serverKey \notin DOMAIN results THEN results
        ELSE CASE res.checkType = "dnssec" ->
                    [results EXCEPT ![serverKey].SupportsDNSSEC = Ptr(checkADFlag(res.result))]
               [] res.checkType = "nxdomain" ->
                    [results EXCEPT ![serverKey].HijacksNXDOMAIN = Ptr(checkNXDOMAINHijack(res.result))]
               [] res.checkType = "rebinding" ->
                    [results EXCEPT ![serverKey].BlocksRebinding = Ptr(checkRebindingProtection(res.result))]
               [] res.checkType = "accuracy" ->
                    [results EXCEPT ![serverKey].IsAccurate =
                        Ptr(checkResponseAccuracy(res.result, c.AccuracyCheckIP))]
               [] res.checkType = "dotcom" ->
                    IF res.result.Error = "nil"
                    THEN [results EXCEPT ![serverKey].DotcomLatency = Ptr(res.result.Latency)]
                    ELSE results
               [] OTHER -> results

\* The probe selections of the runs examined: none, or exactly one probe.
CheckSets ==
    { f \in [{"dnssec", "nxdomain", "rebinding", "accuracy", "dotcom"} -> BOOLEAN] :
        Cardinality({k \in DOMAIN f : f[k]}) <= 1 }

ConfigOf(k, n, w, r, f) ==
    [ Servers |-> SubSeq(AllServers, 1, k), NumQueries |-> n, Concurrency |-> w,
      RateLimit |-> r,
      CheckDNSSEC |-> f["dnssec"], CheckNXDOMAIN |-> f["nxdomain"],
      CheckRebinding |-> f["rebinding"],
      AccuracyCheckFile |-> IF f["accuracy"] THEN "accuracy.txt" ELSE "",
      AccuracyCheckIP |-> AccuracyCheckIP,
      CheckDotcom |-> f["dotcom"] ]

JobsPerServer(c) ==
    LET counts == calculateLatencyQueryCounts(c.NumQueries)
    IN  counts[1] + counts[2] + Len(CheckJobsFor(AllServers[1], c))

Configs ==
    { c \in { ConfigOf(k, n, w, r, f) :
                k \in 1..MaxServers, n \in 0..MaxN, w \in 0..MaxW,
                r \in {0, MaxRate}, f \in CheckSets } :
        Len(c.Servers) * JobsPerServer(c) <= MaxJobs }

BenchInit ==
    /\ cfg \in Configs
    /\ pc = "prewarm"
    /\ Results = [k \in {} |-> NewServerResult(k)]
    /\ Limiter = NewLimiter(cfg.RateLimit)
    /\ jobs = <<>>
    /\ jobsClosed = FALSE
    /\ resultsChan = <<>>
    /\ chanCap = 0
    /\ todo = <<>>
    /\ wpc = [w \in Workers |-> "none"]
    /\ wjob = [w \in Workers |-> NoJob]
    /\ wres = [w \in Workers |-> ZeroQueryResult]
    /\ hasToken = [w \in Workers |-> FALSE]
    /\ idx = 1
    /\ nq = [warm |-> 0, lat |-> 0, chk |-> 0,
             answers |-> [k \in ServerKeys(cfg.Servers) |->
                             [Cached |-> <<>>, Uncached |-> <<>>]]]

\* prewarmConnections: one discarded query to each DoH, DoT and TCP server.
PrewarmStep ==
    /\ pc = "prewarm"
    /\ idx <= Len(cfg.Servers)
    /\ nq' = IF cfg.Servers[idx].Protocol \in {"doh", "dot", "tcp"}
             THEN [nq EXCEPT !.warm = @ + 1] ELSE nq
    /\ idx' = idx + 1
    /\ UNCHANGED <<cfg, pc, Results, Limiter, jobs, jobsClosed, resultsChan,
                   chanCap, todo, wpc, wjob, wres, hasToken>>
    /\ UNCHANGED <<poolVars, q, fn>>

\* Run: after the warm-up, one ServerResult per server.
RunInitResults ==
    /\ pc = "prewarm"
    /\ idx > Len(cfg.Servers)
    /\ Results' = [k \in ServerKeys(cfg.Servers) |-> NewServerResult(k)]
    /\ pc' = "latency"
    /\ UNCHANGED <<cfg, Limiter, jobs, jobsClosed, resultsChan,
                   chanCap, todo, wpc, wjob, wres, hasToken, idx, nq>>
    /\ UNCHANGED <<poolVars, q, fn>>

\* runLatencyBenchmark with channels of capacity 1.
LatencyStartSmallChannels ==
    /\ pc = "latency"
    /\ LET counts == calculateLatencyQueryCounts(cfg.NumQueries)
           totalLatencyJobs == Len(cfg.Servers) * (counts[1] + counts[2])
       IN  IF totalLatencyJobs = 0
           THEN /\ pc' = "checks"
                /\ UNCHANGED <<jobs, jobsClosed, resultsChan, chanCap, wpc, idx>>
           ELSE /\ pc' = "lat_produce"
                /\ jobs' = <<>>
                /\ jobsClosed' = FALSE
                /\ resultsChan' = <<>>
                /\ chanCap' = 1
                /\ wpc' = SpawnWorkers(WorkerCount(cfg.Concurrency, totalLatencyJobs))
                /\ idx' = 1
    /\ UNCHANGED <<cfg, Results, Limiter, todo, wjob, wres, hasToken, nq>>
    /\ UNCHANGED <<poolVars, q, fn>>

\* runLatencyBenchmark up to the producer loop: channels and workers.
LatencyStart ==
    /\ pc = "latency"
    /\ LET counts == calculateLatencyQueryCounts(cfg.NumQueries)
           totalLatencyJobs == Len(cfg.Servers) * (counts[1] + counts[2])
       IN  IF totalLatencyJobs = 0
           THEN /\ pc' = "checks"
                /\ UNCHANGED <<jobs, jobsClosed, resultsChan, chanCap, wpc, idx>>
           ELSE /\ pc' = "lat_produce"
                /\ jobs' = <<>>
                /\ jobsClosed' = FALSE
                /\ resultsChan' = <<>>
                /\ chanCap' = totalLatencyJobs
                /\ wpc' = SpawnWorkers(WorkerCount(cfg.Concurrency, totalLatencyJobs))
                /\ idx' = 1
    /\ UNCHANGED <<cfg, Results, Limiter, todo, wjob, wres, hasToken, nq>>
    /\ UNCHANGED <<poolVars, q, fn>>

\* The head of the producer loop for one server: its counters are reset.
LatencyServer ==
    /\ pc = "lat_produce"
    /\ todo = <<>>
    /\ idx <= Len(cfg.Servers)
    /\ LET server == cfg.Servers[idx]
           serverKey == ServerString(server)
           counts == calculateLatencyQueryCounts(cfg.NumQueries)
       IN  /\ Results' = [Results EXCEPT ![serverKey].TotalQueries = counts[1] + counts[2],
                                         ![serverKey].CachedLatencies = <<>>,
                                         ![serverKey].UncachedLatencies = <<>>]
           /\ todo' = LatencyJobsFor(server, cfg)
    /\ idx' = idx + 1
    /\ UNCHANGED <<cfg, pc, Limiter, jobs, jobsClosed, resultsChan,
                   chanCap, wpc, wjob, wres, hasToken, nq>>
    /\ UNCHANGED <<poolVars, q, fn>>

\* jobs <- job, in either phase; blocks while the channel is full.
SendJob ==
    /\ pc \in {"lat_produce", "chk_produce"}
    /\ todo # <<>>
    /\ Len(jobs) < chanCap
    /\ jobs' = Append(jobs, Head(todo))
    /\ todo' = Tail(todo)
    /\ UNCHANGED <<cfg, pc, Results, Limiter, jobsClosed, resultsChan,
                   chanCap, wpc, wjob, wres, hasToken, idx, nq>>
    /\ UNCHANGED <<poolVars, q, fn>>

LatencyCloseJobs ==
    /\ pc = "lat_produce"
    /\ todo = <<>>
    /\ idx > Len(cfg.Servers)
    /\ jobsClosed' = TRUE
    /\ pc' = "lat_wait"
    /\ UNCHANGED <<cfg, Results, Limiter, jobs, resultsChan,
                   chanCap, todo, wpc, wjob, wres, hasToken, idx, nq>>
    /\ UNCHANGED <<poolVars, q, fn>>

AllWorkersExited == \A w \in Workers : wpc[w] \in {"none", "exited"}

\* wg.Wait(); close(resultsChan)
LatencyWait ==
    /\ pc = "lat_wait"
    /\ AllWorkersExited
    /\ pc' = "lat_drain"
    /\ UNCHANGED <<cfg, Results, Limiter, jobs, jobsClosed, resultsChan,
                   chanCap, todo, wpc, wjob, wres, hasToken, idx, nq>>
    /\ UNCHANGED <<poolVars, q, fn>>

\* One iteration of: for res := range resultsChan { b.processLatencyResult(res) }
LatencyDrain ==
    /\ pc = "lat_drain"
    /\ resultsChan # <<>>
    /\ Results' = processLatencyResult(Results, Head(resultsChan))
    /\ resultsChan' = Tail(resultsChan)
    /\ UNCHANGED <<cfg, pc, Limiter, jobs, jobsClosed,
                   chanCap, todo, wpc, wjob, wres, hasToken, idx, nq>>
    /\ UNCHANGED <<poolVars, q, fn>>

\* LatencyDone that goes on to the probes while outcomes are still queued.
LatencyDoneNoDrain ==
    /\ pc = "lat_drain"
    /\ pc' = "checks"
    /\ UNCHANGED <<cfg, Results, Limiter, jobs, jobsClosed, resultsChan,
                   chanCap, todo, wpc, wjob, wres, hasToken, idx, nq>>
    /\ UNCHANGED <<poolVars, q, fn>>

LatencyDone ==
    /\ pc = "lat_drain"
    /\ resultsChan = <<>>
    /\ pc' = "checks"
    /\ UNCHANGED <<cfg, Results, Limiter, jobs, jobsClosed, resultsChan,
                   chanCap, todo, wpc, wjob, wres, hasToken, idx, nq>>
    /\ UNCHANGED <<poolVars, q, fn>>

\* runChecksConcurrently up to the producer loop.
ChecksStart ==
    /\ pc = "checks"
    /\ LET checkJobsList == prepareCheckJobs(cfg.Servers, cfg)
       IN  IF Len(checkJobsList) = 0
           THEN /\ pc' = "analyze"
                /\ UNCHANGED <<jobs, jobsClosed, resultsChan, chanCap, todo, wpc>>
           ELSE /\ pc' = "chk_produce"
                /\ jobs' = <<>>
                /\ jobsClosed' = FALSE
                /\ resultsChan' = <<>>
                /\ chanCap' = Len(checkJobsList)
                /\ todo' = checkJobsList
                /\ wpc' = SpawnWorkers(WorkerCount(cfg.Concurrency, Len(checkJobsList)))
    /\ UNCHANGED <<cfg, Results, Limiter, wjob, wres, hasToken, idx, nq>>
    /\ UNCHANGED <<poolVars, q, fn>>

ChecksCloseJobs ==
    /\ pc = "chk_produce"
    /\ todo = <<>>
    /\ jobsClosed' = TRUE
    /\ pc' = "chk_wait"
    /\ UNCHANGED <<cfg, Results, Limiter, jobs, resultsChan,
                   chanCap, todo, wpc, wjob, wres, hasToken, idx, nq>>
    /\ UNCHANGED <<poolVars, q, fn>>

ChecksWait ==
    /\ pc = "chk_wait"
    /\ AllWorkersExited
    /\ pc' = "chk_drain"
    /\ UNCHANGED <<cfg, Results, Limiter, jobs, jobsClosed, resultsChan,
                   chanCap, todo, wpc, wjob, wres, hasToken, idx, nq>>
    /\ UNCHANGED <<poolVars, q, fn>>

ChecksDrain ==
    /\ pc = "chk_drain"
    /\ resultsChan # <<>>
    /\ Results' = processCheckResult(Results, Head(resultsChan), cfg)
    /\ resultsChan' = Tail(resultsChan)
    /\ UNCHANGED <<cfg, pc, Limiter, jobs, jobsClosed,
                   chanCap, todo, wpc, wjob, wres, hasToken, idx, nq>>
    /\ UNCHANGED <<poolVars, q, fn>>

ChecksDone ==
    /\ pc = "chk_drain"
    /\ resultsChan = <<>>
    /\ pc' = "analyze"
    /\ UNCHANGED <<cfg, Results, Limiter, jobs, jobsClosed, resultsChan,
                   chanCap, todo, wpc, wjob, wres, hasToken, idx, nq>>
    /\ UNCHANGED <<poolVars, q, fn>>

\* BenchmarkResults.Analyze: the metrics pass over every server.
Analyze ==
    /\ pc = "analyze"
    /\ Results' = [k \in DOMAIN Results |-> CalculateMetrics(Results[k])]
    /\ pc' = "done"
    /\ UNCHANGED <<cfg, Limiter, jobs, jobsClosed, resultsChan,
                   chanCap, todo, wpc, wjob, wres, hasToken, idx, nq>>
    /\ UNCHANGED <<poolVars, q, fn>>

\* run, output.GetWriter(cfg.OutputFile, stdout): called after Run and Analyze
\* have returned. It fails when the -o file cannot be created; run then
\* returns 1 at once.
GetWriter(ok) ==
    /\ pc = "done"
    /\ pc' = IF ok THEN "write" ELSE "return_getwriter"
    /\ UNCHANGED <<cfg, Results, Limiter, jobs, jobsClosed, resultsChan,
                   chanCap, todo, wpc, wjob, wres, hasToken, idx, nq>>
    /\ UNCHANGED <<poolVars, q, fn>>

\* WriteResults whose error branch returns without the pool shutdown.
WriteResultsNoCleanup(ok) ==
    /\ pc = "write"
    /\ pc' = IF ok THEN "cleanup" ELSE "return_write"
    /\ UNCHANGED <<cfg, Results, Limiter, jobs, jobsClosed, resultsChan,
                   chanCap, todo, wpc, wjob, wres, hasToken, idx, nq>>
    /\ UNCHANGED <<poolVars, q, fn>>

\* run, output.WriteResults(outputWriter, results, cfg): on an error run goes
\* on to the CleanupQuicPool call of the error branch, otherwise to the one
\* before return 0.
WriteResults(ok) ==
    /\ pc = "write"
    /\ pc' = IF ok THEN "cleanup" ELSE "cleanup_err"
    /\ UNCHANGED <<cfg, Results, Limiter, jobs, jobsClosed, resultsChan,
                   chanCap, todo, wpc, wjob, wres, hasToken, idx, nq>>
    /\ UNCHANGED <<poolVars, q, fn>>

\* run, the return after CleanupQuicPool has returned: 1 in the error branch
\* of WriteResults, 0 at the end.
ReturnFromRun ==
    /\ pc \in {"cleanup", "cleanup_err"}
    /\ shutdown.at = "returned"
    /\ pc' = IF pc = "cleanup" THEN "return_ok" ELSE "return_write"
    /\ UNCHANGED <<cfg, Results, Limiter, jobs, jobsClosed, resultsChan,
                   chanCap, todo, wpc, wjob, wres, hasToken, idx, nq>>
    /\ UNCHANGED <<poolVars, q, fn>>

\* The exit status main passes to os.Exit; -1 while run has not returned.
exitCode ==
    CASE pc = "return_ok" -> 0
      [] pc \in {"return_getwriter", "return_write"} -> 1
      [] OTHER -> -1

-----------------------------------------------------------------------------
(* queryWorker and the rate limiter *)

\* A worker that starts the query without waiting for the limiter.
WorkerRecvSkipWait(w) ==
    /\ wpc[w] = "recv"
    /\ jobs # <<>>
    /\ wjob' = [wjob EXCEPT ![w] = Head(jobs)]
    /\ jobs' = Tail(jobs)
    /\ wpc' = [wpc EXCEPT ![w] = "query"]
    /\ UNCHANGED <<cfg, pc, Results, Limiter, jobsClosed, resultsChan,
                   chanCap, todo, wres, hasToken, idx, nq>>
    /\ UNCHANGED <<poolVars, q, fn>>

\* for job := range jobs: a job is received
WorkerRecv(w) ==
    /\ wpc[w] = "recv"
    /\ jobs # <<>>
    /\ wjob' = [wjob EXCEPT ![w] = Head(jobs)]
    /\ jobs' = Tail(jobs)
    /\ wpc' = [wpc EXCEPT ![w] = "wait"]
    /\ UNCHANGED <<cfg, pc, Results, Limiter, jobsClosed, resultsChan,
                   chanCap, todo, wres, hasToken, idx, nq>>
    /\ UNCHANGED <<poolVars, q, fn>>

\* for job := range jobs: the channel is closed and empty; deferred wg.Done()
WorkerExit(w) ==
    /\ wpc[w] = "recv"
    /\ jobs = <<>>
    /\ jobsClosed
    /\ wpc' = [wpc EXCEPT ![w] = "exited"]
    /\ UNCHANGED <<cfg, pc, Results, Limiter, jobs, jobsClosed, resultsChan,
                   chanCap, todo, wjob, wres, hasToken, idx, nq>>
    /\ UNCHANGED <<poolVars, q, fn>>

\* b.Limiter.Wait: returns at once for rate.Inf, else takes the token.
LimiterWait(w) ==
    /\ wpc[w] = "wait"
    /\ \/ /\ Limiter.inf
          /\ UNCHANGED Limiter
       \/ /\ ~Limiter.inf
          /\ Limiter.tokens >= 1
          /\ Limiter' = [Limiter EXCEPT !.tokens = @ - 1]
    /\ hasToken' = [hasToken EXCEPT ![w] = TRUE]
    /\ wpc' = [wpc EXCEPT ![w] = "query"]
    /\ UNCHANGED <<cfg, pc, Results, jobs, jobsClosed, resultsChan,
                   chanCap, todo, wjob, wres, idx, nq>>
    /\ UNCHANGED <<poolVars, q, fn>>

\* The bucket refills with time, up to its burst.
LimiterRefill ==
    /\ ~Limiter.inf
    /\ Limiter.tokens < Limiter.burst
    /\ Limiter' = [Limiter EXCEPT !.tokens = @ + 1]
    /\ UNCHANGED <<cfg, pc, Results, jobs, jobsClosed, resultsChan,
                   chanCap, todo, wpc, wjob, wres, hasToken, idx, nq>>
    /\ UNCHANGED <<poolVars, q, fn>>

\* PerformQueryFunc(job...): one query, whatever the transport returns.
WorkerQuery(w) ==
    /\ wpc[w] = "query"
    /\ \E r \in QueryOutcomes(wjob[w]) :
          /\ wres' = [wres EXCEPT ![w] = r]
          /\ nq' = IF wjob[w].checkType # "" THEN [nq EXCEPT !.chk = @ + 1]
                   ELSE IF r.Error # "nil" THEN [nq EXCEPT !.lat = @ + 1]
                   ELSE [nq EXCEPT !.lat = @ + 1,
                                   !.answers[ServerString(wjob[w].serverInfo)][wjob[w].queryType] =
                                        Append(@, r.Latency)]
    /\ hasToken' = [hasToken EXCEPT ![w] = FALSE]
    /\ wpc' = [wpc EXCEPT ![w] = "send"]
    /\ UNCHANGED <<cfg, pc, Results, Limiter, jobs, jobsClosed, resultsChan,
                   chanCap, todo, wjob, idx>>
    /\ UNCHANGED <<poolVars, q, fn>>

\* A worker that writes its outcome into the accumulator itself.
WorkerSendApplies(w) ==
    /\ wpc[w] = "send"
    /\ Len(resultsChan) < chanCap
    /\ Results' = processLatencyResult(Results,
          [serverInfo |-> wjob[w].serverInfo, result |-> wres[w],
           queryType |-> wjob[w].queryType, checkType |-> wjob[w].checkType])
    /\ resultsChan' = Append(resultsChan,
          [serverInfo |-> wjob[w].serverInfo, result |-> wres[w],
           queryType |-> wjob[w].queryType, checkType |-> wjob[w].checkType])
    /\ wjob' = [wjob EXCEPT ![w] = NoJob]
    /\ wres' = [wres EXCEPT ![w] = ZeroQueryResult]
    /\ wpc' = [wpc EXCEPT ![w] = "recv"]
    /\ UNCHANGED <<cfg, pc, Limiter, jobs, jobsClosed,
                   chanCap, todo, hasToken, idx, nq>>
    /\ UNCHANGED <<poolVars, q, fn>>

\* results <- queryJobResult{...}
WorkerSend(w) ==
    /\ wpc[w] = "send"
    /\ Len(resultsChan) < chanCap
    /\ resultsChan' = Append(resultsChan,
          [serverInfo |-> wjob[w].serverInfo, result |-> wres[w],
           queryType |-> wjob[w].queryType, checkType |-> wjob[w].checkType])
    /\ wjob' = [wjob EXCEPT ![w] = NoJob]
    /\ wres' = [wres EXCEPT ![w] = ZeroQueryResult]
    /\ wpc' = [wpc EXCEPT ![w] = "recv"]
    /\ UNCHANGED <<cfg, pc, Results, Limiter, jobs, jobsClosed,
                   chanCap, todo, hasToken, idx, nq>>
    /\ UNCHANGED <<poolVars, q, fn>>

queryWorker(w) ==
    \/ WorkerRecv(w)
    \/ WorkerExit(w)
    \/ LimiterWait(w)
    \/ WorkerQuery(w)
    \/ WorkerSend(w)

-----------------------------------------------------------------------------
(* The QUIC connection pool: quicConnectionPool, its sweeper and its callers *)

maxPooledConnections == 10
connectionTTL == 30
maxIdleTime == 15

PoolAddrs == {"dns.adguard.com:853", "dns.nextdns.io:853"}

\* p.connections[serverAddr]: the nil slice when the key is missing.
ConnsOf(conns, serverAddr) ==
    IF serverAddr \in DOMAIN conns THEN conns[serverAddr] ELSE <<>>

\* p.connections[serverAddr] = list
SetConns(conns, serverAddr, list) ==
    [a \in (DOMAIN conns) \cup {serverAddr} |-> IF a = serverAddr THEN list ELSE conns[a]]

\* <-conn.session.Context().Done() is not ready: the QUIC connection is open.
SessionOpen(sid) == sessions[sid].open

\* What the environment of the pool does in the runs examined: the addresses
\* queried, the number of getConnection and returnConnection calls, of clock
\* steps, of sessions closed by the peer, of failed dials and of shutdownPool
\* calls. Either a few queries with everything else free, or a burst of more
\* queries on one address than the pool ceiling.
PoolLoads ==
    { [addrs |-> PoolAddrs, gets |-> MaxGets, returns |-> MaxGets, ticks |-> MaxTicks,
       closes |-> MaxPeerCloses, fails |-> MaxDialFailures, shutdowns |-> MaxShutdownCalls],
      [addrs |-> {"dns.adguard.com:853"}, gets |-> maxPooledConnections + MaxOverflow,
       returns |-> MaxBurstReturns, ticks |-> MaxBurstTicks,
       closes |-> 0, fails |-> 0, shutdowns |-> 1] }

NoLoad ==
    [addrs |-> {}, gets |-> 0, returns |-> 0, ticks |-> 0, closes |-> 0, fails |-> 0, shutdowns |-> 0]

EmptyPool == [a \in {} |-> <<>>]

PoolInit ==
    /\ connections = EmptyPool
    /\ cleanup = FALSE
    /\ cleanupDone = FALSE
    /\ sweeper = "running"
    /\ shutdown = [at |-> "idle", calls |-> 0, panicked |-> FALSE]
    /\ now = 0
    /\ sessions = <<>>
    /\ load \in PoolLoads

\* The pool as the query and function specifications leave it: untouched.
PoolIdle ==
    /\ connections = EmptyPool
    /\ cleanup = FALSE
    /\ cleanupDone = FALSE
    /\ sweeper = "running"
    /\ shutdown = [at |-> "idle", calls |-> 0, panicked |-> FALSE]
    /\ now = 0
    /\ sessions = <<>>
    /\ load = NoLoad

\* The pool when a benchmark run starts: untouched, and main calls
\* CleanupQuicPool once.
PoolOfRun ==
    /\ connections = EmptyPool
    /\ cleanup = FALSE
    /\ cleanupDone = FALSE
    /\ sweeper = "running"
    /\ shutdown = [at |-> "idle", calls |-> 0, panicked |-> FALSE]
    /\ now = 0
    /\ sessions = <<>>
    /\ load = [NoLoad EXCEPT !.shutdowns = 1]

\* The search of getConnection without the inUse test: the first pooled
\* connection whose session is still open.
FirstOpen(conns) ==
    IF \E i \in 1..Len(conns) : SessionOpen(conns[i].session)
    THEN CHOOSE i \in 1..Len(conns) :
            /\ SessionOpen(conns[i].session)
            /\ \A j \in 1..(i - 1) : ~SessionOpen(conns[j].session)
    ELSE 0

\* A connection counts as stale whether or not it is in use.
StaleInUseToo(conn) ==
    now - conn.createdAt > connectionTTL \/ now - conn.lastUsed > maxIdleTime

\* The index of the first pooled connection getConnection hands out, 0 if none:
\* not in use and its session still open.
FirstAvailable(conns) ==
    IF \E i \in 1..Len(conns) : ~conns[i].inUse /\ SessionOpen(conns[i].session)
    THEN CHOOSE i \in 1..Len(conns) :
            /\ ~conns[i].inUse /\ SessionOpen(conns[i].session)
            /\ \A j \in 1..(i - 1) : conns[j].inUse \/ ~SessionOpen(conns[j].session)
    ELSE 0

\* The ceiling test with > in place of >=.
PoolFullOffByOne(conns) == Len(conns) > maxPooledConnections

\* The pool is full for this address: the next session is not pooled.
PoolFull(conns) == Len(conns) >= maxPooledConnections

\* getConnection, the whole call under p.mu. dialOk is the outcome of
\* quic.DialAddrEarly when the call dials.
getConnection(serverAddr, dialOk) ==
    /\ ~shutdown.panicked
    /\ serverAddr \in load.addrs
    /\ load.gets > 0
    /\ LET conns == ConnsOf(connections, serverAddr)
           i == FirstAvailable(conns)
           sid == Len(sessions) + 1
       IN  IF i # 0
           THEN /\ dialOk
                /\ connections' = [connections EXCEPT ![serverAddr][i].inUse = TRUE,
                                                      ![serverAddr][i].lastUsed = now]
                /\ sessions' = [sessions EXCEPT ![conns[i].session].holders = @ + 1]
                /\ load' = [load EXCEPT !.gets = @ - 1]
           ELSE IF ~dialOk
           THEN /\ load.fails > 0
                /\ load' = [load EXCEPT !.gets = @ - 1, !.fails = @ - 1]
                /\ UNCHANGED <<connections, sessions>>
           ELSE IF PoolFull(conns)
           THEN /\ sessions' = Append(sessions, [addr |-> serverAddr, open |-> TRUE, holders |-> 1])
                /\ load' = [load EXCEPT !.gets = @ - 1]
                /\ UNCHANGED connections
           ELSE /\ sessions' = Append(sessions, [addr |-> serverAddr, open |-> TRUE, holders |-> 1])
                /\ connections' = SetConns(connections, serverAddr,
                        Append(conns, [session |-> sid, lastUsed |-> now,
                                       createdAt |-> now, inUse |-> TRUE]))
                /\ load' = [load EXCEPT !.gets = @ - 1]
    /\ UNCHANGED <<cleanup, cleanupDone, sweeper, shutdown, now>>

\* A caller of the pool that is not modelled further calls getConnection.
CallerGets(serverAddr, dialOk) ==
    /\ getConnection(serverAddr, dialOk)
    /\ UNCHANGED <<benchVars, q, fn>>

\* The index of the pooled connection of this session, 0 if it is not pooled.
IndexOfSession(conns, sid) ==
    IF \E i \in 1..Len(conns) : conns[i].session = sid
    THEN CHOOSE i \in 1..Len(conns) :
            conns[i].session = sid /\ \A j \in 1..(i - 1) : conns[j].session # sid
    ELSE 0

\* returnConnection, deferred by the DoQ query that holds the session.
returnConnection(serverAddr, sid) ==
    /\ ~shutdown.panicked
    /\ load.returns > 0
    /\ sid \in 1..Len(sessions)
    /\ sessions[sid].addr = serverAddr
    /\ sessions[sid].holders > 0
    /\ load' = [load EXCEPT !.returns = @ - 1]
    /\ sessions' = [sessions EXCEPT ![sid].holders = @ - 1]
    /\ LET conns == ConnsOf(connections, serverAddr)
           i == IndexOfSession(conns, sid)
       IN  connections' = IF i = 0 THEN connections
                          ELSE [connections EXCEPT ![serverAddr][i].inUse = FALSE,
                                                   ![serverAddr][i].lastUsed = now]
    /\ UNCHANGED <<cleanup, cleanupDone, sweeper, shutdown, now>>

\* The caller that holds the session returns it.
CallerReturns(serverAddr, sid) ==
    /\ returnConnection(serverAddr, sid)
    /\ UNCHANGED <<benchVars, q, fn>>

\* A pooled connection the sweeper removes: not in use, and too old or idle too long.
Stale(conn) ==
    /\ ~conn.inUse
    /\ (now - conn.createdAt > connectionTTL \/ now - conn.lastUsed > maxIdleTime)

Active(conn) == ~Stale(conn)

\* The sessions of the pooled connections that satisfy a condition.
SessionsWhere(conns, cond(_)) ==
    UNION { {conns[a][i].session : i \in {j \in 1..Len(conns[a]) : cond(conns[a][j])}} :
            a \in DOMAIN conns }

CloseSessions(sess, ids) ==
    [sid \in 1..Len(sess) |-> IF sid \in ids THEN [sess[sid] EXCEPT !.open = FALSE] ELSE sess[sid]]

\* cleanupStaleConnections: what is left of the map.
cleanupStaleConnections(conns) ==
    LET kept == {a \in DOMAIN conns : SelectSeq(conns[a], Active) # <<>>}
    IN  [a \in kept |-> SelectSeq(conns[a], Active)]

\* startCleanup, case <-ticker.C: one sweeper pass.
SweeperPass ==
    /\ ~shutdown.panicked
    /\ sweeper = "running"
    /\ connections' = cleanupStaleConnections(connections)
    /\ sessions' = CloseSessions(sessions, SessionsWhere(connections, Stale))
    /\ UNCHANGED <<cleanup, cleanupDone, sweeper, shutdown, now, load>>
    /\ UNCHANGED <<benchVars, q, fn>>

AnyConn(conn) == TRUE

\* startCleanup, case <-p.cleanup: closeAllConnections, close(p.cleanupDone), return.
SweeperShutdown ==
    /\ ~shutdown.panicked
    /\ sweeper = "running"
    /\ cleanup
    /\ sessions' = CloseSessions(sessions, SessionsWhere(connections, AnyConn))
    /\ connections' = EmptyPool
    /\ cleanupDone' = TRUE
    /\ sweeper' = "exited"
    /\ UNCHANGED <<cleanup, shutdown, now, load>>
    /\ UNCHANGED <<benchVars, q, fn>>

\* shutdownPool, first statement: close(p.cleanup); closing a closed channel panics.
ShutdownCall ==
    /\ ~shutdown.panicked
    /\ shutdown.at \in {"idle", "returned"}
    /\ load.shutdowns > 0
    /\ load' = [load EXCEPT !.shutdowns = @ - 1]
    /\ IF cleanup
       THEN /\ shutdown' = [shutdown EXCEPT !.calls = @ + 1, !.panicked = TRUE]
            /\ UNCHANGED cleanup
       ELSE /\ shutdown' = [shutdown EXCEPT !.calls = @ + 1, !.at = "waiting"]
            /\ cleanup' = TRUE
    /\ UNCHANGED <<connections, cleanupDone, sweeper, now, sessions>>
    /\ UNCHANGED <<benchVars, q, fn>>

\* shutdownPool that does not wait for cleanupDone.
ShutdownReturnNoWait ==
    /\ ~shutdown.panicked
    /\ shutdown.at = "waiting"
    /\ shutdown' = [shutdown EXCEPT !.at = "returned"]
    /\ UNCHANGED <<connections, cleanup, cleanupDone, sweeper, now, sessions, load>>
    /\ UNCHANGED <<benchVars, q, fn>>

\* shutdownPool, second statement: <-p.cleanupDone
ShutdownReturn ==
    /\ ~shutdown.panicked
    /\ shutdown.at = "waiting"
    /\ cleanupDone
    /\ shutdown' = [shutdown EXCEPT !.at = "returned"]
    /\ UNCHANGED <<connections, cleanup, cleanupDone, sweeper, now, sessions, load>>
    /\ UNCHANGED <<benchVars, q, fn>>

\* The peer, or the QUIC idle timeout, closes a session.
PeerClose(sid) ==
    /\ ~shutdown.panicked
    /\ sessions[sid].open
    /\ load.closes > 0
    /\ load' = [load EXCEPT !.closes = @ - 1]
    /\ sessions' = [sessions EXCEPT ![sid].open = FALSE]
    /\ UNCHANGED <<connections, cleanup, cleanupDone, sweeper, shutdown, now>>
    /\ UNCHANGED <<benchVars, q, fn>>

\* Time passes; the clock is observed in steps of maxIdleTime.
Tick ==
    /\ ~shutdown.panicked
    /\ load.ticks > 0
    /\ load' = [load EXCEPT !.ticks = @ - 1]
    /\ now' = now + maxIdleTime
    /\ UNCHANGED <<connections, cleanup, cleanupDone, sweeper, shutdown, sessions>>
    /\ UNCHANGED <<benchVars, q, fn>>

PoolNext ==
    \/ \E a \in PoolAddrs, ok \in BOOLEAN : CallerGets(a, ok)
    \/ \E a \in PoolAddrs, sid \in 1..Len(sessions) : CallerReturns(a, sid)
    \/ SweeperPass
    \/ SweeperShutdown
    \/ ShutdownCall
    \/ ShutdownReturn
    \/ \E sid \in 1..Len(sessions) : PeerClose(sid)
    \/ Tick

\* The benchmark as the pool specification leaves it: not started.
BenchIdle ==
    /\ cfg = ConfigOf(1, 0, 0, 0, [k \in {"dnssec", "nxdomain", "rebinding", "accuracy", "dotcom"} |-> FALSE])
    /\ pc = "idle"
    /\ Results = [k \in {} |-> NewServerResult(k)]
    /\ Limiter = NewLimiter(0)
    /\ jobs = <<>>
    /\ jobsClosed = FALSE
    /\ resultsChan = <<>>
    /\ chanCap = 0
    /\ todo = <<>>
    /\ wpc = [w \in Workers |-> "none"]
    /\ wjob = [w \in Workers |-> NoJob]
    /\ wres = [w \in Workers |-> ZeroQueryResult]
    /\ hasToken = [w \in Workers |-> FALSE]
    /\ idx = 1
    /\ nq = [warm |-> 0, lat |-> 0, chk |-> 0, answers |-> <<>>]

-----------------------------------------------------------------------------
(* One query on one transport, with the time it takes.                      *)
(* q.elapsed counts the seconds since the adapter was entered; q.deadline   *)
(* is the value of q.elapsed at which the blocking call the query is in     *)
(* gives up, or NoDeadline when that call has no deadline.                  *)

Transports == {"udp", "tcp", "dot", "doh", "doq"}

NoDeadline == -1

\* context.WithTimeout(context.Background(), 10*time.Second) in getConnection
quicDialTimeout == 10

NoQuery ==
    [transport |-> "", timeout |-> 0, pooled |-> FALSE, stage |-> "idle",
     elapsed |-> 0, deadline |-> NoDeadline, error |-> "nil", session |-> 0]

QueryIdle == q = NoQuery

\* The query is handed to its adapter; for DoQ, pooled tells whether
\* getConnection finds a pooled session to reuse.
QueryInit ==
    \E tr \in Transports, T \in 1..MaxTimeout, reuse \in BOOLEAN :
        /\ (reuse => tr = "doq")
        /\ q = [NoQuery EXCEPT !.transport = tr, !.timeout = T, !.pooled = reuse,
                               !.stage = "start"]

\* performUDPQuery, performTCPQuery, performDoTQuery: client.Exchange of a
\* dns.Client whose Timeout, the budget of dial, write and read, is T.
StartExchange ==
    /\ q.stage = "start"
    /\ q.transport \in {"udp", "tcp", "dot"}
    /\ q' = [q EXCEPT !.stage = "exchange", !.deadline = q.timeout]
    /\ UNCHANGED <<benchVars, poolVars, fn>>

\* performDoHQuery: httpClient.Do with a request context and a client timeout of T.
StartDoH ==
    /\ q.stage = "start"
    /\ q.transport = "doh"
    /\ q' = [q EXCEPT !.stage = "httpDo", !.deadline = q.timeout]
    /\ UNCHANGED <<benchVars, poolVars, fn>>

\* performDoQQuery enters getConnection: a pooled session is handed out at
\* once, otherwise quic.DialAddrEarly runs under its own 10 s context.
StartDoQ ==
    /\ q.stage = "start"
    /\ q.transport = "doq"
    /\ q' = IF q.pooled
            THEN [q EXCEPT !.stage = "openStream", !.deadline = q.timeout]
            ELSE [q EXCEPT !.stage = "dial", !.deadline = q.elapsed + quicDialTimeout]
    /\ UNCHANGED <<benchVars, poolVars, fn>>

\* quic.DialAddrEarly returns a session: session.OpenStreamSync(ctx) follows,
\* under the context of the query, which expires T after its start.
DialDone ==
    /\ q.stage = "dial"
    /\ q' = [q EXCEPT !.stage = "openStream", !.deadline = q.timeout]
    /\ UNCHANGED <<benchVars, poolVars, fn>>

\* quic.DialAddrEarly fails before its context expires.
DialFails ==
    /\ q.stage = "dial"
    /\ q' = [q EXCEPT !.stage = "done", !.deadline = NoDeadline, !.error = "failed"]
    /\ UNCHANGED <<benchVars, poolVars, fn>>

\* The stream is open and the query written: stream.Read follows, and no
\* deadline is set on the stream.
OpenStreamDone ==
    /\ q.stage = "openStream"
    /\ q.elapsed < q.deadline
    /\ q' = [q EXCEPT !.stage = "read", !.deadline = NoDeadline]
    /\ UNCHANGED <<benchVars, poolVars, fn>>

\* The peer answers: the blocking call returns the response.
PeerAnswers ==
    /\ q.stage \in {"exchange", "httpDo", "read"}
    /\ (q.deadline # NoDeadline => q.elapsed < q.deadline)
    /\ q' = [q EXCEPT !.stage = "done", !.deadline = NoDeadline]
    /\ UNCHANGED <<benchVars, poolVars, fn>>

\* The deadline of the blocking call is reached: it returns a timeout error.
DeadlineExpires ==
    /\ q.stage \in {"exchange", "httpDo", "dial", "openStream"}
    /\ q.elapsed >= q.deadline
    /\ q' = [q EXCEPT !.stage = "done", !.deadline = NoDeadline,
                      !.error = IF q.stage \in {"exchange", "httpDo"} THEN "timeout" ELSE "failed"]
    /\ UNCHANGED <<benchVars, poolVars, fn>>

\* stream.Read fails because the QUIC connection went away.
ReadFails ==
    /\ q.stage = "read"
    /\ q' = [q EXCEPT !.stage = "done", !.error = "failed"]
    /\ UNCHANGED <<benchVars, poolVars, fn>>

\* One second passes while the query is in a blocking call whose deadline,
\* if it has one, is not yet reached.
QueryTick ==
    /\ q.stage \in {"exchange", "httpDo", "dial", "openStream", "read"}
    /\ (q.deadline # NoDeadline => q.elapsed < q.deadline)
    /\ q.elapsed < MaxElapsed
    /\ q' = [q EXCEPT !.elapsed = @ + 1]
    /\ UNCHANGED <<benchVars, poolVars, fn>>

QueryNext ==
    \/ StartExchange
    \/ StartDoH
    \/ StartDoQ
    \/ DialDone
    \/ DialFails
    \/ OpenStreamDone
    \/ PeerAnswers
    \/ DeadlineExpires
    \/ ReadFails
    \/ QueryTick

-----------------------------------------------------------------------------
(* performDoQQuery on the pool: one worker that runs DoQ queries one after  *)
(* the other. q.stage is the statement the query is at, q.session the       *)
(* session getConnection handed to it (0: none).                            *)

\* The statements of performDoQQuery that can fail once the session is held,
\* in their order: OpenStreamSync, stream.Write, the read of the length
\* prefix, the size test, the read of the body, response.Unpack.
DoQStages == <<"openStream", "write", "readLength", "checkLength", "readBody", "unpack">>

DoQStart == [NoQuery EXCEPT !.transport = "doq", !.stage = "start"]

\* The loads under which every query that holds a session can return it.
DoQInit ==
    /\ q = DoQStart
    /\ connections = EmptyPool
    /\ cleanup = FALSE
    /\ cleanupDone = FALSE
    /\ sweeper = "running"
    /\ shutdown = [at |-> "idle", calls |-> 0, panicked |-> FALSE]
    /\ now = 0
    /\ sessions = <<>>
    /\ load \in {l \in PoolLoads : l.returns >= l.gets}

\* session, err := globalQuicPool.getConnection(...): on an error the query
\* returns at once, before the deferred returnConnection is registered.
DoQGetConnection(serverAddr, dialOk) ==
    /\ q.stage = "start"
    /\ getConnection(serverAddr, dialOk)
    /\ LET held == {sid \in 1..Len(sessions') :
                      sid > Len(sessions) \/ sessions'[sid].holders > sessions[sid].holders}
       IN  q' = IF held = {}
                THEN [q EXCEPT !.stage = "done", !.error = "failed"]
                ELSE [q EXCEPT !.stage = DoQStages[1], !.session = CHOOSE sid \in held : TRUE]
    /\ UNCHANGED <<benchVars, fn>>

\* The statement the query is at succeeds.
DoQAdvance ==
    /\ \E i \in 1..(Len(DoQStages) - 1) :
          /\ q.stage = DoQStages[i]
          /\ q' = [q EXCEPT !.stage = DoQStages[i + 1]]
    /\ UNCHANGED <<benchVars, poolVars, fn>>

\* An error return that leaves without running returnConnection.
DoQFailsNoReturn ==
    /\ \E i \in 1..Len(DoQStages) : q.stage = DoQStages[i]
    /\ q' = [q EXCEPT !.stage = "done", !.error = "failed"]
    /\ UNCHANGED <<benchVars, poolVars, fn>>

\* The statement the query is at fails: the error is returned and the
\* deferred returnConnection runs.
DoQFails ==
    /\ \E i \in 1..Len(DoQStages) : q.stage = DoQStages[i]
    /\ returnConnection(sessions[q.session].addr, q.session)
    /\ q' = [q EXCEPT !.stage = "done", !.error = "failed"]
    /\ UNCHANGED <<benchVars, fn>>

\* response.Unpack succeeds: the result is returned and the deferred
\* returnConnection runs.
DoQReturns ==
    /\ q.stage = DoQStages[Len(DoQStages)]
    /\ returnConnection(sessions[q.session].addr, q.session)
    /\ q' = [q EXCEPT !.stage = "done"]
    /\ UNCHANGED <<benchVars, fn>>

\* The worker takes its next DoQ job.
DoQNextQuery ==
    /\ q.stage = "done"
    /\ load.gets > 0
    /\ q' = DoQStart
    /\ UNCHANGED <<benchVars, poolVars, fn>>

DoQNext ==
    \/ \E a \in PoolAddrs, ok \in BOOLEAN : DoQGetConnection(a, ok)
    \/ DoQAdvance
    \/ DoQFails
    \/ DoQReturns
    \/ DoQNextQuery
    \/ SweeperPass
    \/ SweeperShutdown
    \/ ShutdownCall
    \/ ShutdownReturn
    \/ \E sid \in 1..Len(sessions) : PeerClose(sid)
    \/ Tick

-----------------------------------------------------------------------------
(* One call of a function: fn.op names it, fn.arg is its argument, fn.out   *)
(* its result, and fn.done tells that it has returned.                      *)

NoFn == [op |-> "", arg |-> <<>>, out |-> <<>>, done |-> FALSE]

FnIdle == fn = NoFn

-----------------------------------------------------------------------------
(* Strings are sequences of one-character strings; the operators below are *)
(* the functions of strings, strconv and net the parser calls.             *)

Digits == {"0", "1", "2", "3", "4", "5", "6", "7", "8", "9"}

Letters ==
    {"a", "b", "c", "d", "e", "f", "g", "h", "i", "j", "k", "l", "m",
     "n", "o", "p", "q", "r", "s", "t", "u", "v", "w", "x", "y", "z"}

Decimal == <<"0", "1", "2", "3", "4", "5", "6", "7", "8", "9">>

DigitVal(c) == (CHOOSE i \in 1..Len(Decimal) : Decimal[i] = c) - 1

RECURSIVE DecimalValue(_)
DecimalValue(s) ==
    IF s = <<>> THEN 0
    ELSE 10 * DecimalValue(SubSeq(s, 1, Len(s) - 1)) + DigitVal(s[Len(s)])

\* strings.HasPrefix, strings.HasSuffix
HasPrefix(s, p) == Len(s) >= Len(p) /\ SubSeq(s, 1, Len(p)) = p

HasSuffix(s, p) == Len(s) >= Len(p) /\ SubSeq(s, Len(s) - Len(p) + 1, Len(s)) = p

\* s[n:]
Drop(s, n) == SubSeq(s, n + 1, Len(s))

\* strings.IndexByte and strings.LastIndexByte, counted from 1; 0 when absent
IndexByte(s, c) ==
    IF \E i \in 1..Len(s) : s[i] = c
    THEN CHOOSE i \in 1..Len(s) : s[i] = c /\ \A j \in 1..(i - 1) : s[j] # c
    ELSE 0

LastIndexByte(s, c) ==
    IF \E i \in 1..Len(s) : s[i] = c
    THEN CHOOSE i \in 1..Len(s) : s[i] = c /\ \A j \in (i + 1)..Len(s) : s[j] # c
    ELSE 0

\* strings.Index, counted from 1; 0 when absent
Index(s, sub) ==
    LET hits == {i \in 1..(Len(s) - Len(sub) + 1) : SubSeq(s, i, i + Len(sub) - 1) = sub}
    IN  IF hits = {} THEN 0 ELSE CHOOSE i \in hits : \A j \in hits : i <= j

\* strings.ContainsAny
ContainsAny(s, chars) == \E i \in 1..Len(s) : s[i] \in chars

\* strings.Split(s, c) for a one-character separator
RECURSIVE Split(_, _)
Split(s, c) ==
    LET i == IndexByte(s, c)
    IN  IF i = 0 THEN <<s>>
        ELSE <<SubSeq(s, 1, i - 1)>> \o Split(Drop(s, i), c)

\* strings.Trim(s, cutset); strings.TrimSpace is Trim by the blank
RECURSIVE Trim(_, _)
Trim(s, cutset) ==
    IF s = <<>> THEN s
    ELSE IF s[1] \in cutset THEN Trim(Tail(s), cutset)
    ELSE IF s[Len(s)] \in cutset THEN Trim(SubSeq(s, 1, Len(s) - 1), cutset)
    ELSE s

TrimSpace(s) == Trim(s, {" "})

AllDigits(s) == s # <<>> /\ \A i \in 1..Len(s) : s[i] \in Digits

\* strconv.Atoi(s) returns no error
AtoiOk(s) ==
    AllDigits(IF s # <<>> /\ s[1] \in {"+", "-"} THEN Tail(s) ELSE s)

\* net.ParseIP(s).To4() != nil for a dotted quad: four decimal fields of at
\* most three digits, without leading zero, each at most 255
ParseIPv4(s) ==
    LET parts == Split(s, ".")
    IN  /\ Len(parts) = 4
        /\ \A i \in 1..4 :
              /\ AllDigits(parts[i])
              /\ Len(parts[i]) <= 3
              /\ (Len(parts[i]) > 1 => parts[i][1] # "0")
              /\ DecimalValue(parts[i]) <= 255

\* The IPv6 literals of the inputs examined.
IPv6Literals == { <<"2", "6", "0", "6", ":", ":", "1">>, <<"2", "0", "0", "1", ":", "d", "b", "8", ":", ":", "8">> }

\* net.ParseIP(s) != nil
ParseIP(s) == ParseIPv4(s) \/ s \in IPv6Literals

\* net.SplitHostPort: the port is what follows the last colon and is not
\* examined; a bracketed host must end right before that colon.
SplitHostPort(hostport) ==
    LET i == LastIndexByte(hostport, ":")
        fail == [err |-> TRUE, host |-> <<>>, port |-> <<>>]
    IN  IF i = 0 THEN fail
        ELSE IF hostport[1] = "["
        THEN LET end == IndexByte(hostport, "]")
             IN  IF end = 0 \/ end + 1 # i THEN fail
                 ELSE IF IndexByte(Drop(hostport, 1), "[") # 0 THEN fail
                 ELSE IF IndexByte(Drop(hostport, end), "]") # 0 THEN fail
                 ELSE [err |-> FALSE, host |-> SubSeq(hostport, 2, end - 1),
                       port |-> Drop(hostport, i)]
        ELSE IF IndexByte(SubSeq(hostport, 1, i - 1), ":") # 0 THEN fail
        ELSE IF IndexByte(hostport, "[") # 0 THEN fail
        ELSE IF IndexByte(hostport, "]") # 0 THEN fail
        ELSE [err |-> FALSE, host |-> SubSeq(hostport, 1, i - 1),
              port |-> Drop(hostport, i)]

\* net.JoinHostPort: a host with a colon is put in brackets, whatever it is.
JoinHostPort(host, port) ==
    IF IndexByte(host, ":") # 0
    THEN <<"[">> \o host \o <<"]", ":">> \o port
    ELSE host \o <<":">> \o port

-----------------------------------------------------------------------------
(* Endpoint strings: config.parseServerString, config.ServerInfo.String     *)
(* and config.parseAndDeduplicateServers                                    *)

\* config.isValidHostname (the inputs examined are lower case)
isValidHostname(hostname) ==
    IF hostname = <<>> THEN FALSE
    ELSE IF ParseIP(hostname) THEN TRUE
    ELSE IF Len(hostname) > 253 THEN FALSE
    ELSE LET labels == Split(hostname, ".")
         IN  IF Len(labels) = 1 /\ hostname # <<"l", "o", "c", "a", "l", "h", "o", "s", "t">>
             THEN IF ContainsAny(hostname, {" ", ":", "/", "\\"}) THEN FALSE
                  ELSE IF AtoiOk(hostname) THEN FALSE
                  ELSE TRUE
             ELSE \A i \in 1..Len(labels) :
                     /\ Len(labels[i]) # 0
                     /\ Len(labels[i]) <= 63
                     /\ ~HasPrefix(labels[i], <<"-">>)
                     /\ ~HasSuffix(labels[i], <<"-">>)
                     /\ \A j \in 1..Len(labels[i]) :
                           labels[i][j] \in Letters \cup Digits \cup {"-"}

\* url.validOptionalPort: empty, or a colon followed by digits only
validOptionalPort(port) ==
    \/ port = <<>>
    \/ /\ port[1] = ":"
       /\ \A i \in 2..Len(port) : port[i] \in Digits

\* url.Parse of a string that starts with https://, and then URL.Hostname
\* and URL.Path: the authority runs to the first slash, its port must be
\* digits, and Hostname drops the port and the brackets.
ParseURL(s) ==
    LET rest      == Drop(s, Len(<<"h", "t", "t", "p", "s", ":", "/", "/">>))
        slash     == IndexByte(rest, "/")
        authority == IF slash = 0 THEN rest ELSE SubSeq(rest, 1, slash - 1)
        path      == IF slash = 0 THEN <<>> ELSE Drop(rest, slash - 1)
        bad       == [err |-> TRUE, Hostname |-> <<>>, Path |-> <<>>]
        hostChars == Letters \cup Digits \cup {"-", ".", "_", "~", ":", "[", "]"}
        colon     == LastIndexByte(authority, ":")
        close     == LastIndexByte(authority, "]")
        noPort    == IF colon # 0 /\ validOptionalPort(Drop(authority, colon - 1))
                     THEN SubSeq(authority, 1, colon - 1)
                     ELSE authority
        host      == IF HasPrefix(noPort, <<"[">>) /\ HasSuffix(noPort, <<"]">>)
                     THEN SubSeq(noPort, 2, Len(noPort) - 1)
                     ELSE noPort
    IN  IF HasPrefix(authority, <<"[">>)
        THEN IF close = 0 THEN bad
             ELSE IF ~validOptionalPort(Drop(authority, close)) THEN bad
             ELSE [err |-> FALSE, Hostname |-> host, Path |-> path]
        ELSE IF colon # 0 /\ ~validOptionalPort(Drop(authority, colon - 1)) THEN bad
        ELSE IF \E i \in 1..Len(authority) : authority[i] \notin hostChars THEN bad
        ELSE [err |-> FALSE, Hostname |-> host, Path |-> path]

\* return ServerInfo{}, err
ParseError ==
    [err |-> TRUE,
     si  |-> [Address |-> <<>>, Protocol |-> "", Hostname |-> <<>>, DoHPath |-> <<>>]]

\* The transport prefixes parseServerString knows, with their default port.
KnownPrefixes ==
    << [prefix |-> <<"t", "l", "s", ":", "/", "/">>,  protocol |-> "dot", defaultPort |-> <<"8", "5", "3">>],
       [prefix |-> <<"q", "u", "i", "c", ":", "/", "/">>, protocol |-> "doq", defaultPort |-> <<"8", "5", "3">>],
       [prefix |-> <<"t", "c", "p", ":", "/", "/">>,  protocol |-> "tcp", defaultPort |-> <<"5", "3">>] >>

\* config.parseServerString, the part after the DoH branch: addrPart is the
\* string without its prefix.
parseHostPort(addrPart, protocol, defaultPort) ==
    LET split    == SplitHostPort(addrPart)
        trimmed  == IF HasPrefix(addrPart, <<"[">>) /\ HasSuffix(addrPart, <<"]">>)
                    THEN Trim(addrPart, {"[", "]"})
                    ELSE addrPart
        first    == SubSeq(addrPart, 1, IndexByte(addrPart, ":") - 1)
        salvaged == /\ IndexByte(addrPart, ":") # 0
                    /\ (~ParseIP(trimmed) \/ ParseIPv4(trimmed))
                    /\ isValidHostname(first)
        host     == IF ~split.err THEN split.host
                    ELSE IF salvaged THEN first ELSE addrPart
        port     == IF ~split.err THEN split.port ELSE defaultPort
        hostname == IF ~split.err
                    THEN IF HasPrefix(split.host, <<"[">>) /\ HasSuffix(split.host, <<"]">>)
                         THEN Trim(split.host, {"[", "]"})
                         ELSE split.host
                    ELSE IF salvaged THEN first ELSE trimmed
        isIPv6   == ParseIP(addrPart) /\ ~ParseIPv4(addrPart)
    IN  IF isValidHostname(hostname)
        THEN [err |-> FALSE,
              si  |-> [Address |-> JoinHostPort(host, port), Protocol |-> protocol,
                       Hostname |-> hostname, DoHPath |-> <<>>]]
        ELSE IF isIPv6
        THEN [err |-> FALSE,
              si  |-> [Address |-> JoinHostPort(addrPart, port), Protocol |-> protocol,
                       Hostname |-> addrPart, DoHPath |-> <<>>]]
        ELSE ParseError

\* config.parseServerString
parseServerString(str) ==
    LET serverStr == TrimSpace(str)
        u         == ParseURL(serverStr)
        known     == {i \in 1..Len(KnownPrefixes) : HasPrefix(serverStr, KnownPrefixes[i].prefix)}
        k         == KnownPrefixes[CHOOSE i \in known : \A j \in known : i <= j]
        i         == Index(serverStr, <<":", "/", "/">>)
    IN  IF serverStr = <<>> THEN ParseError
        ELSE IF HasPrefix(serverStr, <<"h", "t", "t", "p", "s", ":", "/", "/">>)
        THEN IF u.err \/ u.Hostname = <<>> \/ ~isValidHostname(u.Hostname)
             THEN ParseError
             ELSE [err |-> FALSE,
                   si  |-> [Address |-> serverStr, Protocol |-> "doh",
                            Hostname |-> u.Hostname, DoHPath |-> u.Path]]
        ELSE IF known # {}
        THEN parseHostPort(Drop(serverStr, Len(k.prefix)), k.protocol, k.defaultPort)
        ELSE IF i # 0 /\ IndexByte(SubSeq(serverStr, 1, i - 1), ":") = 0
        THEN parseHostPort(Drop(serverStr, i + 2), "udp", <<"5", "3">>)
        ELSE parseHostPort(serverStr, "udp", <<"5", "3">>)

\* config.ServerInfo.String
ServerInfoString(si) ==
    LET split == SplitHostPort(si.Address)
        port  == IF split.err THEN <<"8", "5", "3">> ELSE split.port
        named == si.Hostname # <<>> /\ ~ParseIP(si.Hostname)
    IN  CASE si.Protocol = "doh" -> si.Address
          [] si.Protocol = "dot" ->
                IF named THEN <<"t", "l", "s", ":", "/", "/">> \o JoinHostPort(si.Hostname, port)
                ELSE <<"t", "l", "s", ":", "/", "/">> \o si.Address
          [] si.Protocol = "doq" ->
                IF named THEN <<"q", "u", "i", "c", ":", "/", "/">> \o JoinHostPort(si.Hostname, port)
                ELSE <<"q", "u", "i", "c", ":", "/", "/">> \o si.Address
          [] si.Protocol = "tcp" -> <<"t", "c", "p", ":", "/", "/">> \o si.Address
          [] OTHER -> si.Address

\* parseAndDeduplicateServers with the address, not the String() form, as key.
RECURSIVE parseAndDeduplicateServersByAddress(_)
parseAndDeduplicateServersByAddress(serverStrings) ==
    IF serverStrings = <<>> THEN <<>>
    ELSE LET result == parseAndDeduplicateServersByAddress(
                           SubSeq(serverStrings, 1, Len(serverStrings) - 1))
             info   == parseServerString(serverStrings[Len(serverStrings)])
             seen   == {result[i].Address : i \in 1..Len(result)}
         IN  IF info.err THEN result
             ELSE IF info.si.Address \in seen THEN result
             ELSE Append(result, info.si)

\* config.parseAndDeduplicateServers: seen holds the keys of the endpoints
\* kept so far.
RECURSIVE parseAndDeduplicateServers(_)
parseAndDeduplicateServers(serverStrings) ==
    IF serverStrings = <<>> THEN <<>>
    ELSE LET result == parseAndDeduplicateServers(
                           SubSeq(serverStrings, 1, Len(serverStrings) - 1))
             info   == parseServerString(serverStrings[Len(serverStrings)])
             seen   == {ServerInfoString(result[i]) : i \in 1..Len(result)}
         IN  IF info.err THEN result
             ELSE IF ServerInfoString(info.si) \in seen THEN result
             ELSE Append(result, info.si)

-----------------------------------------------------------------------------
(* Output: output.sortServerResults and output.findBestServer               *)

reliabilityThreshold == 99

\* time.Duration(math.MaxInt64), above every latency.
maxDuration == 2147483647

\* The comparison closure with the endpoints lacking uncached samples first.
sortLessMissingFirst(resI, resJ) ==
    LET hasUncachedI == Len(resI.UncachedLatencies) > 0
        hasUncachedJ == Len(resJ.UncachedLatencies) > 0
        hasCachedI   == Len(resI.CachedLatencies) > 0
        hasCachedJ   == Len(resJ.CachedLatencies) > 0
    IN  IF hasUncachedI /\ ~hasUncachedJ THEN FALSE
        ELSE IF ~hasUncachedI /\ hasUncachedJ THEN TRUE
        ELSE IF hasUncachedI /\ hasUncachedJ
                /\ resI.AvgUncachedLatency # resJ.AvgUncachedLatency
        THEN resI.AvgUncachedLatency < resJ.AvgUncachedLatency
        ELSE IF hasCachedI /\ ~hasCachedJ THEN TRUE
        ELSE IF ~hasCachedI /\ hasCachedJ THEN FALSE
        ELSE IF hasCachedI /\ hasCachedJ
                /\ resI.AvgCachedLatency # resJ.AvgCachedLatency
        THEN resI.AvgCachedLatency < resJ.AvgCachedLatency
        ELSE FALSE

\* The comparison closure of sortServerResults
sortLess(resI, resJ) ==
    LET hasUncachedI == Len(resI.UncachedLatencies) > 0
        hasUncachedJ == Len(resJ.UncachedLatencies) > 0
        hasCachedI   == Len(resI.CachedLatencies) > 0
        hasCachedJ   == Len(resJ.CachedLatencies) > 0
    IN  IF hasUncachedI /\ ~hasUncachedJ THEN TRUE
        ELSE IF ~hasUncachedI /\ hasUncachedJ THEN FALSE
        ELSE IF hasUncachedI /\ hasUncachedJ
                /\ resI.AvgUncachedLatency # resJ.AvgUncachedLatency
        THEN resI.AvgUncachedLatency < resJ.AvgUncachedLatency
        ELSE IF hasCachedI /\ ~hasCachedJ THEN TRUE
        ELSE IF ~hasCachedI /\ hasCachedJ THEN FALSE
        ELSE IF hasCachedI /\ hasCachedJ
                /\ resI.AvgCachedLatency # resJ.AvgCachedLatency
        THEN resI.AvgCachedLatency < resJ.AvgCachedLatency
        ELSE FALSE

\* One insertion of a stable sort: x goes before the first element it is less than.
InsertStable(sorted, x) ==
    LET after == {i \in 1..Len(sorted) : sortLess(x, sorted[i])}
        pos   == IF after = {} THEN Len(sorted) + 1
                 ELSE CHOOSE i \in after : \A j \in after : i <= j
    IN  SubSeq(sorted, 1, pos - 1) \o <<x>> \o SubSeq(sorted, pos, Len(sorted))

\* sort.SliceStable(results, less)
RECURSIVE sortServerResults(_)
sortServerResults(results) ==
    IF results = <<>> THEN <<>>
    ELSE InsertStable(sortServerResults(SubSeq(results, 1, Len(results) - 1)),
                      results[Len(results)])

compareUncachedLatency(current, best, currentLowestUncached) ==
    LET hasUncachedCurrent == Len(current.UncachedLatencies) > 0
        hasUncachedBest    == Len(best.UncachedLatencies) > 0
    IN  IF hasUncachedCurrent /\ ~hasUncachedBest THEN TRUE
        ELSE IF ~hasUncachedCurrent /\ hasUncachedBest THEN FALSE
        ELSE IF hasUncachedCurrent /\ hasUncachedBest
        THEN current.AvgUncachedLatency < currentLowestUncached
        ELSE FALSE

compareCachedLatency(current, best) ==
    LET hasCachedCurrent == Len(current.CachedLatencies) > 0
        hasCachedBest    == Len(best.CachedLatencies) > 0
    IN  IF hasCachedCurrent /\ ~hasCachedBest THEN TRUE
        ELSE IF ~hasCachedCurrent /\ hasCachedBest THEN FALSE
        ELSE IF hasCachedCurrent /\ hasCachedBest
        THEN current.AvgCachedLatency < best.AvgCachedLatency
        ELSE FALSE

\* res.Reliability < reliabilityThreshold, on the exact quotient
Unreliable(res) == res.Reliability[1] < reliabilityThreshold * res.Reliability[2]

\* The loop of findBestServer: bestServer and lowestUncachedLatency after
\* the results given.
RECURSIVE findBestLoop(_, _)
findBestLoop(results, c) ==
    IF results = <<>>
    THEN [bestServer |-> Nil, lowestUncachedLatency |-> maxDuration]
    ELSE LET st  == findBestLoop(SubSeq(results, 1, Len(results) - 1), c)
             res == results[Len(results)]
             isAccurate == ~(c.AccuracyCheckFile # "" /\ res.IsAccurate # Nil
                             /\ ~res.IsAccurate[1])
             lowest == IF Len(res.UncachedLatencies) > 0
                       THEN res.AvgUncachedLatency
                       ELSE st.lowestUncachedLatency
         IN  IF Unreliable(res) THEN st
             ELSE IF ~isAccurate THEN st
             ELSE IF st.bestServer = Nil
             THEN [bestServer |-> Ptr(res), lowestUncachedLatency |-> lowest]
             ELSE IF compareUncachedLatency(res, st.bestServer[1], st.lowestUncachedLatency)
             THEN [bestServer |-> Ptr(res), lowestUncachedLatency |-> lowest]
             ELSE IF compareCachedLatency(res, st.bestServer[1])
             THEN [bestServer |-> Ptr(res), lowestUncachedLatency |-> st.lowestUncachedLatency]
             ELSE st

findBestServer(results, c) == findBestLoop(results, c).bestServer

-----------------------------------------------------------------------------
(* Single calls: the inputs examined and one action for each function      *)

ParsePrefixes ==
    { <<>>, <<"u", "d", "p", ":", "/", "/">>, <<"t", "c", "p", ":", "/", "/">>, <<"t", "l", "s", ":", "/", "/">>, <<"q", "u", "i", "c", ":", "/", "/">>, <<"i", "n", "v", "a", "l", "i", "d", ":", "/", "/">> }

ParseHosts ==
    { <<"1", ".", "1", ".", "1", ".", "1">>, <<"d", "n", "s", ".", "g", "o", "o", "g", "l", "e">>, <<"l", "o", "c", "a", "l", "h", "o", "s", "t">>, <<"b", "a", "d", "-", "h", "o", "s", "t", "n", "a", "m", "e">>, <<"1", "2", "3">>,
      <<"b", "a", "d", "_", "h", "o", "s", "t", ".", "c", "o", "m">>, <<"2", "6", "0", "6", ":", ":", "1">>, <<"[", "2", "6", "0", "6", ":", ":", "1", "]">> }

ParsePorts == { <<>>, <<":", "5", "3">>, <<":", "8", "5", "3">>, <<":", "b", "a", "d">> }

ServerStrings ==
    { p \o h \o t : p \in ParsePrefixes, h \in ParseHosts, t \in ParsePorts }
    \cup { <<>>, <<" ", " ", " ">>, <<" ", "1", ".", "1", ".", "1", ".", "1", " ">>, <<"t", "c", "p", ":", "/", "/", "b", "a", "d", ":", "h", "o", "s", "t", "n", "a", "m", "e">>,
           <<"h", "t", "t", "p", "s", ":", "/", "/", "d", "n", "s", ".", "g", "o", "o", "g", "l", "e", "/", "d", "n", "s", "-", "q", "u", "e", "r", "y">>, <<"h", "t", "t", "p", "s", ":", "/", "/", "d", "n", "s", ".", "g", "o", "o", "g", "l", "e">>,
           <<"h", "t", "t", "p", "s", ":", "/", "/", "1", ".", "1", ".", "1", ".", "1", "/", "d", "n", "s", "-", "q", "u", "e", "r", "y">>, <<"h", "t", "t", "p", "s", ":", "/", "/", "d", "n", "s", ".", "g", "o", "o", "g", "l", "e", ":", "4", "4", "3", "/", "d", "n", "s", "-", "q", "u", "e", "r", "y">>,
           <<"h", "t", "t", "p", "s", ":", "/", "/", ":", "i", "n", "v", "a", "l", "i", "d", ":">>, <<"h", "t", "t", "p", "s", ":", "/", "/">>, <<"h", "t", "t", "p", ":", "/", "/", "d", "n", "s", ".", "g", "o", "o", "g", "l", "e", "/", "d", "n", "s", "-", "q", "u", "e", "r", "y">> }

RECURSIVE SeqsUpTo(_, _)
SeqsUpTo(S, n) ==
    IF n = 0 THEN {<<>>}
    ELSE LET shorter == SeqsUpTo(S, n - 1)
         IN  shorter \cup {Append(s, x) : s \in shorter, x \in S}

\* The lists given to parseAndDeduplicateServers.
ServerLists ==
    LET strings ==
            { <<"1", ".", "1", ".", "1", ".", "1">>,
              <<"1", ".", "1", ".", "1", ".", "1", ":", "5", "3">>,
              <<"t", "l", "s", ":", "/", "/", "1", ".", "1", ".", "1", ".", "1">>,
              <<"t", "c", "p", ":", "/", "/", "1", ".", "1", ".", "1", ".", "1">>,
              <<"t", "l", "s", ":", "/", "/", "d", "n", "s", ".", "g", "o", "o", "g", "l", "e", ":", "8", "5", "3">>,
              <<"h", "t", "t", "p", ":", "/", "/", "d", "n", "s", ".", "g", "o", "o", "g", "l", "e", "/", "d", "n", "s", "-", "q", "u", "e", "r", "y">> }
    IN  SeqsUpTo(strings, MaxList)

ProbeTypes == {"dnssec", "nxdomain", "rebinding", "accuracy", "dotcom"}

\* A probe job ends in a failed query, a query without error and without
\* response, or an answered query.
ProbeInputs ==
    LET responses ==
            { [Rcode |-> rc, Answer |-> a, AuthenticatedData |-> ad] :
                rc \in {"NOERROR", "NXDOMAIN", "SERVFAIL", "REFUSED"},
                a \in SeqsUpTo({"192.0.2.10", "192.0.2.11"}, MaxAnswers),
                ad \in BOOLEAN }
        results ==
            ErrorResults \cup {ZeroQueryResult} \cup {OkResult(1, r) : r \in responses}
    IN  { [checkType |-> t, result |-> r] : t \in ProbeTypes, r \in results }

\* The configuration of the probe calls: every probe enabled.
ProbeConfig == ConfigOf(1, 0, 1, 0, [t \in ProbeTypes |-> TRUE])

\* An endpoint after the run: one uncached sample u and one cached sample c
\* (0: no sample), a failed query or none, and the accuracy verdict.
MeasuredResult(i, u, c, failed, acc) ==
    CalculateMetrics(
        [ NewServerResult(<<"", "server", i>>) EXCEPT
            !.UncachedLatencies = IF u = 0 THEN <<>> ELSE <<u>>,
            !.CachedLatencies = IF c = 0 THEN <<>> ELSE <<c>>,
            !.TotalQueries = (IF u = 0 THEN 0 ELSE 1) + (IF c = 0 THEN 0 ELSE 1)
                             + (IF failed THEN 1 ELSE 0),
            !.IsAccurate = acc ])

\* The endpoints of a run; the accuracy verdict is present when the probe is enabled.
Profiles(accuracy) ==
    [u : 0..MaxMean, c : 0..MaxMean, failed : BOOLEAN,
     acc : IF accuracy THEN {Ptr(TRUE), Ptr(FALSE)} ELSE {Nil}]

\* The results map as getServerResultsSlice hands it over: in any order.
ResultsOf(profiles) ==
    [i \in 1..Len(profiles) |->
        MeasuredResult(i, profiles[i].u, profiles[i].c, profiles[i].failed, profiles[i].acc)]

\* strconv.Itoa of a non-negative integer
RECURSIVE Itoa(_)
Itoa(n) ==
    IF n < 10 THEN <<Decimal[n + 1]>>
    ELSE Itoa(n \div 10) \o <<Decimal[(n % 10) + 1]>>

\* buildCSVRow: the columns of one endpoint. Durations are counted in
\* milliseconds; Reliability is the fraction <<numerator, denominator>>.
buildCSVRow(res, c) ==
    LET NA == <<"N", "/", "A">>
        \* fmt.Sprintf("%.<prec>f", num / den), scale = 10^prec
        Fixed(num, den, scale, prec) ==
            LET v    == RoundDiv(num * scale, den)
                frac == Itoa(v % scale)
            IN  Itoa(v \div scale) \o <<".">>
                \o [i \in 1..(prec - Len(frac)) |-> "0"] \o frac
        formatMillisFloat(d, applicable) ==
            IF ~applicable THEN NA ELSE Fixed(d, 1, 1000, 3)
        formatMillisFloatPointer(d) ==
            IF d = Nil THEN NA ELSE Fixed(d[1], 1, 1000, 3)
        formatBoolPointerCSV(val) ==
            IF val = Nil THEN NA
            ELSE IF val[1] THEN <<"t", "r", "u", "e">> ELSE <<"f", "a", "l", "s", "e">>
    IN  << res.ServerAddress,
           formatMillisFloat(res.AvgCachedLatency, Len(res.CachedLatencies) > 0),
           formatMillisFloat(res.StdDevCachedLatency, Len(res.CachedLatencies) > 1),
           formatMillisFloat(res.AvgUncachedLatency, Len(res.UncachedLatencies) > 0),
           formatMillisFloat(res.StdDevUncachedLatency, Len(res.UncachedLatencies) > 1),
           Fixed(res.Reliability[1], res.Reliability[2], 10, 1),
           Itoa(Len(res.CachedLatencies)),
           Itoa(Len(res.UncachedLatencies)),
           Itoa(res.Errors),
           Itoa(res.TotalQueries) >>
        \o (IF c.CheckDotcom THEN <<formatMillisFloatPointer(res.DotcomLatency)>> ELSE <<>>)
        \o (IF c.CheckDNSSEC THEN <<formatBoolPointerCSV(res.SupportsDNSSEC)>> ELSE <<>>)
        \o (IF c.CheckNXDOMAIN THEN <<formatBoolPointerCSV(res.HijacksNXDOMAIN)>> ELSE <<>>)
        \o (IF c.CheckRebinding THEN <<formatBoolPointerCSV(res.BlocksRebinding)>> ELSE <<>>)
        \o (IF c.AccuracyCheckFile # "" THEN <<formatBoolPointerCSV(res.IsAccurate)>> ELSE <<>>)

\* getServerResultsSlice: the values of the results map in the order the
\* range over the map visits them. Go leaves that order unspecified and
\* randomizes it from one range statement to the next; order is the
\* permutation this range draws.
getServerResultsSlice(results, order) ==
    [i \in 1..Len(order) |-> results[order[i]]]

\* WriteCSVResults: the rows written after the header, for one iteration
\* order of the results map.
WriteCSVResults(results, order, c) ==
    LET serverResults == sortServerResults(getServerResultsSlice(results, order))
    IN  [i \in 1..Len(serverResults) |-> buildCSVRow(serverResults[i], c)]

\* The iteration orders of a map of n entries
MapOrders(n) ==
    { o \in [1..n -> 1..n] : \A i, j \in 1..n : i # j => o[i] # o[j] }

\* The endpoints of the CSV runs: at most one sample of each series, of one
\* value, with or without a failed query.
CsvProfiles == { p \in Profiles(FALSE) : p.u <= 1 /\ p.c <= 1 }

FnCall(op, arg) == [op |-> op, arg |-> arg, out |-> <<>>, done |-> FALSE]

FnInit ==
    \/ \E n \in (-1)..MaxCountN : fn = FnCall("counts", n)
    \/ \E s \in ServerStrings : fn = FnCall("parse", s)
    \/ \E l \in ServerLists : fn = FnCall("dedup", l)
    \/ \E p \in ProbeInputs : fn = FnCall("probe", p)
    \/ \E a \in BOOLEAN, n \in 0..MaxRanked :
          \E ps \in [1..n -> Profiles(a)] :
             fn = FnCall("rank", [accuracy |-> a, profiles |-> ps])
    \/ \E n \in 0..MaxRanked :
          \E ps \in [1..n -> CsvProfiles], o1 \in MapOrders(n), o2 \in MapOrders(n) :
             fn = FnCall("csv", [profiles |-> ps, orders |-> <<o1, o2>>])

Return(out) ==
    /\ ~fn.done
    /\ fn' = [fn EXCEPT !.out = out, !.done = TRUE]
    /\ UNCHANGED <<benchVars, poolVars, q>>

\* runLatencyBenchmark, the producer loop for one server with -n fn.arg
ProduceLatencyJobs ==
    /\ fn.op = "counts"
    /\ LET counts == calculateLatencyQueryCounts(fn.arg)
       IN  Return([jobs |-> LatencyJobsFor(AllServers[1], [NumQueries |-> fn.arg]),
                   TotalQueries |-> counts[1] + counts[2]])

ParseServer ==
    /\ fn.op = "parse"
    /\ Return(parseServerString(fn.arg))

ParseAndDeduplicate ==
    /\ fn.op = "dedup"
    /\ Return(parseAndDeduplicateServers(fn.arg))

\* processCheckResult on the outcome of one probe job of one server
ProcessProbe ==
    /\ fn.op = "probe"
    /\ LET server == AllServers[1]
           key    == ServerString(server)
           res    == [serverInfo |-> server, queryType |-> "Cached",
                      checkType |-> fn.arg.checkType, result |-> fn.arg.result]
       IN  Return(processCheckResult([k \in {key} |-> NewServerResult(k)],
                                     res, ProbeConfig)[key])

\* PrintConsoleResults: the rows in their order, and the best server of printSummary
PrintConsoleResults ==
    /\ fn.op = "rank"
    /\ LET serverResults == sortServerResults(ResultsOf(fn.arg.profiles))
           c == [AccuracyCheckFile |-> IF fn.arg.accuracy THEN "accuracy.txt" ELSE ""]
       IN  Return([rows |-> serverResults,
                   bestServer |-> IF Len(serverResults) = 0 THEN Nil
                                  ELSE findBestServer(serverResults, c)])

\* Two runs of the program with -f csv over the same endpoints with the same
\* outcomes: each run writes its rows in the order its own range over the
\* results map yields.
WriteCSVResultsTwice ==
    /\ fn.op = "csv"
    /\ LET results == ResultsOf(fn.arg.profiles)
           c == ConfigOf(1, 0, 1, 0, [t \in ProbeTypes |-> FALSE])
       IN  Return([run \in 1..2 |-> WriteCSVResults(results, fn.arg.orders[run], c)])

FnNext ==
    \/ WriteCSVResultsTwice
    \/ ProduceLatencyJobs
    \/ ParseServer
    \/ ParseAndDeduplicate
    \/ ProcessProbe
    \/ PrintConsoleResults

\* run, dnsquery.CleanupQuicPool(): enters globalQuicPool.shutdownPool, whose
\* steps are ShutdownCall, the sweeper's SweeperShutdown and ShutdownReturn.
CleanupQuicPool ==
    /\ pc \in {"cleanup", "cleanup_err"}
    /\ shutdown.at = "idle"
    /\ ShutdownCall

BenchNext ==
    \/ PrewarmStep
    \/ RunInitResults
    \/ LatencyStart
    \/ LatencyServer
    \/ SendJob
    \/ LatencyCloseJobs
    \/ LatencyWait
    \/ LatencyDrain
    \/ LatencyDone
    \/ ChecksStart
    \/ ChecksCloseJobs
    \/ ChecksWait
    \/ ChecksDrain
    \/ ChecksDone
    \/ Analyze
    \/ \E ok \in BOOLEAN : GetWriter(ok)
    \/ \E ok \in BOOLEAN : WriteResults(ok)
    \/ CleanupQuicPool
    \/ SweeperShutdown
    \/ ShutdownReturn
    \/ ReturnFromRun
    \/ LimiterRefill
    \/ \E w \in Workers : queryWorker(w)

BenchSpecInit == BenchInit /\ PoolOfRun /\ QueryIdle /\ FnIdle

BenchSpec == BenchSpecInit /\ [][BenchNext]_vars

PoolSpecInit == PoolInit /\ BenchIdle /\ QueryIdle /\ FnIdle

PoolSpec == PoolSpecInit /\ [][PoolNext]_vars

QuerySpecInit == QueryInit /\ BenchIdle /\ PoolIdle /\ FnIdle

QuerySpec == QuerySpecInit /\ [][QueryNext]_vars

FnSpecInit == FnInit /\ BenchIdle /\ PoolIdle /\ QueryIdle

FnSpec == FnSpecInit /\ [][FnNext]_vars

DoQSpecInit == DoQInit /\ BenchIdle /\ FnIdle

DoQSpec == DoQSpecInit /\ [][DoQNext]_vars

\* The runs in which one server gets MaxSeries uncached latency queries, so
\* that two samples of one series of one endpoint exist: -n 2 * MaxSeries - 1 on
\* the first server, any number of workers, with or without a rate limit
\* and a probe.
SeriesConfigs ==
    { ConfigOf(1, 2 * MaxSeries - 1, w, r, f) :
        w \in 0..MaxW, r \in {0, MaxRate}, f \in CheckSets }

SeriesInit ==
    /\ cfg \in SeriesConfigs
    /\ pc = "prewarm"
    /\ Results = [k \in {} |-> NewServerResult(k)]
    /\ Limiter = NewLimiter(cfg.RateLimit)
    /\ jobs = <<>>
    /\ jobsClosed = FALSE
    /\ resultsChan = <<>>
    /\ chanCap = 0
    /\ todo = <<>>
    /\ wpc = [w \in Workers |-> "none"]
    /\ wjob = [w \in Workers |-> NoJob]
    /\ wres = [w \in Workers |-> ZeroQueryResult]
    /\ hasToken = [w \in Workers |-> FALSE]
    /\ idx = 1
    /\ nq = [warm |-> 0, lat |-> 0, chk |-> 0,
             answers |-> [k \in ServerKeys(cfg.Servers) |->
                             [Cached |-> <<>>, Uncached |-> <<>>]]]

SeriesSpecInit == SeriesInit /\ PoolOfRun /\ QueryIdle /\ FnIdle

SeriesSpec == SeriesSpecInit /\ [][BenchNext]_vars

\* The runs whose only probe, if any, is the dotcom probe.
FairConfigs ==
    { c \in Configs : /\ ~c.CheckDNSSEC
                      /\ ~c.CheckNXDOMAIN
                      /\ ~c.CheckRebinding
                      /\ c.AccuracyCheckFile = "" }

FairBenchInit == BenchInit /\ PoolOfRun /\ QueryIdle /\ FnIdle /\ cfg \in FairConfigs

\* The run is fair: every goroutine that can take a step eventually does,
\* every query returns, and the limiter refills as time passes.
FairBenchSpec == FairBenchInit /\ [][BenchNext]_vars /\ WF_vars(BenchNext)

-----------------------------------------------------------------------------
(* Properties *)

AfterLatencyDrain ==
    pc \in {"checks", "chk_produce", "chk_wait", "chk_drain", "analyze", "done"}

Accounted(sr) ==
    Len(sr.CachedLatencies) + Len(sr.UncachedLatencies) + sr.Errors

\* C1: once the latency phase is drained, and still after the metrics pass,
\* every endpoint has cached samples + uncached samples + errors = attempts.
C1_AttemptsAccounted ==
    AfterLatencyDrain =>
        \A k \in DOMAIN Results : Accounted(Results[k]) = Results[k].TotalQueries

\* The metrics pass is over for an endpoint with a sample and an error.
C1_Witness ==
    /\ pc = "done"
    /\ \E k \in DOMAIN Results :
          /\ Len(Results[k].CachedLatencies) + Len(Results[k].UncachedLatencies) > 0
          /\ Results[k].Errors > 0

\* The fields of an accumulator that query outcomes are written to.
OutcomeFields(sr) ==
    <<sr.CachedLatencies, sr.UncachedLatencies, sr.Errors, sr.SupportsDNSSEC,
      sr.HijacksNXDOMAIN, sr.BlocksRebinding, sr.IsAccurate, sr.DotcomLatency>>

WorkerStep == wpc' # wpc \/ wjob' # wjob \/ wres' # wres

OutcomeWritten ==
    \E k \in (DOMAIN Results) \cap (DOMAIN Results') :
        OutcomeFields(Results'[k]) # OutcomeFields(Results[k])

\* C2: a step of a worker leaves every accumulator as it is; an outcome is
\* written to an accumulator only by the drain step, and the drain step is
\* entered only when every worker of the phase has exited.
C2_DrainIsSerial ==
    [][ /\ (WorkerStep => Results' = Results)
        /\ (OutcomeWritten => pc \in {"lat_drain", "chk_drain"} /\ AllWorkersExited)
        /\ (pc' \in {"lat_drain", "chk_drain"} => AllWorkersExited') ]_vars

\* The drain of a phase run by two workers has written an outcome and has
\* more to write.
C2_Witness ==
    /\ pc = "lat_drain"
    /\ cfg.Concurrency >= 2
    /\ resultsChan # <<>>
    /\ \E k \in DOMAIN Results : Accounted(Results[k]) > 0

\* C3: the pool never holds more than maxPooledConnections sessions for an address.
C3_PoolCeiling ==
    \A a \in DOMAIN connections : Len(connections[a]) <= maxPooledConnections

\* Ten pooled sessions of one address are in use and an eleventh caller
\* holds a session of that address that is not pooled.
C3_Witness ==
    \E a \in DOMAIN connections :
        /\ Len(connections[a]) = maxPooledConnections
        /\ \A i \in 1..Len(connections[a]) : connections[a][i].inUse
        /\ \E sid \in 1..Len(sessions) :
              /\ sessions[sid].addr = a
              /\ sessions[sid].holders > 0
              /\ IndexOfSession(connections[a], sid) = 0

\* C4: when shutdownPool has returned the sweeper has exited, and a sweeper
\* that has exited stays so.
C4_ShutdownWaitsForSweeper ==
    /\ [](shutdown.at = "returned" => sweeper = "exited")
    /\ [][sweeper = "exited" => sweeper' = "exited"]_vars

\* shutdownPool has returned on a pool that had handed out sessions.
C4_Witness ==
    /\ shutdown.at = "returned"
    /\ sweeper = "exited"
    /\ Len(sessions) > 0

\* C5: a second call of shutdownPool completes normally.
C5_ShutdownIdempotent ==
    shutdown.calls >= 2 => ~shutdown.panicked

\* C6: a query never runs longer than its deadline T.
C6_QueryWithinDeadline ==
    q.stage # "idle" => q.elapsed <= q.timeout

ProbeField(sr, checkType) ==
    CASE checkType = "dnssec" -> sr.SupportsDNSSEC
      [] checkType = "nxdomain" -> sr.HijacksNXDOMAIN
      [] checkType = "rebinding" -> sr.BlocksRebinding
      [] checkType = "accuracy" -> sr.IsAccurate
      [] OTHER -> Nil

\* C7: when the drain step handles the outcome of a probe job whose query
\* returned an error, the probe field of that endpoint is absent afterwards.
C7_ProbeErrorLeavesFieldAbsent ==
    [][ ( /\ pc = "chk_drain"
          /\ resultsChan # <<>>
          /\ resultsChan' = Tail(resultsChan)
          /\ Head(resultsChan).result.Error # "nil" )
        => ProbeField(Results'[ServerString(Head(resultsChan).serverInfo)],
                      Head(resultsChan).checkType) = Nil ]_vars

\* C8: a worker is in a query only after it passed Limiter.Wait for that job,
\* the step into the query takes one token from the one bucket unless the
\* rate is unlimited, the bucket never holds more than one token, and with
\* R = 0 Limiter.Wait can always return.
C8_TokenBeforeQuery ==
    /\ [](\A w \in Workers : wpc[w] = "query" => hasToken[w])
    /\ [](Limiter.tokens <= 1 /\ Limiter.burst <= 1)
    /\ [](\A w \in Workers : (cfg.RateLimit = 0 /\ wpc[w] = "wait") => ENABLED LimiterWait(w))
    /\ [][ \A w \in Workers :
             (wpc[w] # "query" /\ wpc'[w] = "query") =>
                /\ wpc[w] = "wait"
                /\ (Limiter.inf \/ (Limiter.tokens >= 1 /\ Limiter'.tokens = Limiter.tokens - 1)) ]_vars

\* In the probe phase of a rate-limited run that sent latency queries, a
\* worker is in its query with the token taken from the bucket.
C8_Witness ==
    /\ pc \in {"chk_produce", "chk_wait"}
    /\ nq.lat > 0
    /\ ~Limiter.inf
    /\ Limiter.tokens = 0
    /\ \E w \in Workers : wpc[w] = "query" /\ hasToken[w]

RECURSIVE AccountedAll(_, _)
AccountedAll(results, keys) ==
    IF keys = {} THEN 0
    ELSE LET k == CHOOSE x \in keys : TRUE
         IN  Accounted(results[k]) + AccountedAll(results, keys \ {k})

\* C9: the run ends; a drain starts with no job left, every worker exited
\* and one outcome per job in the results channel; the latency drain has
\* written one outcome per job when it is over.
C9_DrainsCleanly ==
    /\ <>(pc = "done")
    /\ [](pc \in {"lat_drain", "chk_drain"} =>
            jobs = <<>> /\ todo = <<>> /\ AllWorkersExited)
    /\ [][ (pc \in {"lat_wait", "chk_wait"} /\ pc' \in {"lat_drain", "chk_drain"}) =>
              /\ Len(resultsChan) = chanCap
              /\ chanCap = IF pc = "lat_wait"
                           THEN Len(cfg.Servers) * (calculateLatencyQueryCounts(cfg.NumQueries)[1]
                                                    + calculateLatencyQueryCounts(cfg.NumQueries)[2])
                           ELSE Len(prepareCheckJobs(cfg.Servers, cfg)) ]_vars
    /\ [](pc = "checks" => /\ resultsChan = <<>>
                           /\ AccountedAll(Results, DOMAIN Results) = nq.lat)
    /\ [](pc \in {"analyze", "done"} =>
            /\ resultsChan = <<>>
            /\ nq.chk = Len(prepareCheckJobs(cfg.Servers, cfg)))

\* An unmetered run of two workers over two latency jobs has ended.
C9_Witness ==
    /\ pc = "done"
    /\ cfg.RateLimit = 0
    /\ cfg.Concurrency = 2
    /\ nq.lat = 2

ReliabilityIs100(sr) == sr.Reliability[1] = 100 * sr.Reliability[2]

\* C10: after the metrics pass reliability is within 0..100, and it is 100
\* exactly when there is no error and at least one attempt.
C10_ReliabilityRange ==
    pc = "done" =>
        \A k \in DOMAIN Results :
            /\ Results[k].Reliability[2] > 0
            /\ 0 <= Results[k].Reliability[1]
            /\ Results[k].Reliability[1] <= 100 * Results[k].Reliability[2]
            /\ ReliabilityIs100(Results[k]) <=>
                  (Results[k].Errors = 0 /\ Results[k].TotalQueries > 0)

\* After the metrics pass one endpoint of the run is at 100 % and another,
\* every attempt of which failed, is at 0 %.
C10_Witness ==
    /\ pc = "done"
    /\ \E k1, k2 \in DOMAIN Results :
          /\ ReliabilityIs100(Results[k1])
          /\ Results[k2].TotalQueries > 0
          /\ Results[k2].Reliability[1] = 0

JobsOfType(js, queryType) ==
    Cardinality({i \in 1..Len(js) : js[i].queryType = queryType})

\* C11: for every N the producer loop of the latency phase sends, for one
\* endpoint, floor(N/2) cached jobs and ceil(N/2) uncached jobs and nothing
\* else (none when N < 1; 0/1 for N = 1, 1/1 for N = 2, 1/2 for N = 3), and
\* it sets the attempts of the endpoint to floor(N/2) + ceil(N/2).
C11_CountsSplit ==
    (fn.op = "counts" /\ fn.done) =>
        LET n     == fn.arg
            floor == IF n < 1 THEN 0 ELSE n \div 2
            ceil  == IF n < 1 THEN 0 ELSE (n + 1) \div 2
        IN  /\ JobsOfType(fn.out.jobs, "Cached") = floor
            /\ JobsOfType(fn.out.jobs, "Uncached") = ceil
            /\ Len(fn.out.jobs) = floor + ceil
            /\ fn.out.TotalQueries = floor + ceil
            /\ (n = 1 => floor = 0 /\ ceil = 1)
            /\ (n = 2 => floor = 1 /\ ceil = 1)
            /\ (n = 3 => floor = 1 /\ ceil = 2)

\* The loop has run for an odd N above 3: two cached jobs, three uncached.
C11_Witness ==
    /\ fn.op = "counts"
    /\ fn.done
    /\ fn.arg = 5
    /\ JobsOfType(fn.out.jobs, "Cached") = 2
    /\ JobsOfType(fn.out.jobs, "Uncached") = 3

\* C12: parseAndDeduplicateServers returns, for every list, the endpoints of
\* the entries that parse and whose String() form no earlier entry has, in
\* the order of the list, so no two returned endpoints share a String()
\* form; 1.1.1.1, 1.1.1.1:53, tls://1.1.1.1 give UDP 1.1.1.1:53 and DoT
\* tls://1.1.1.1:853.
C12_DedupFirstWins ==
    (fn.op = "dedup" /\ fn.done) =>
        LET strs   == fn.arg
            out    == fn.out
            parsed == [i \in 1..Len(strs) |-> parseServerString(strs[i])]
            key(i) == ServerInfoString(parsed[i].si)
            first  == {i \in 1..Len(strs) :
                         /\ ~parsed[i].err
                         /\ \A j \in 1..(i - 1) : parsed[j].err \/ key(j) # key(i)}
            nth(a) == CHOOSE i \in first : Cardinality({j \in first : j <= i}) = a
        IN  /\ \A a, b \in 1..Len(out) :
                  a # b => ServerInfoString(out[a]) # ServerInfoString(out[b])
            /\ Len(out) = Cardinality(first)
            /\ \A a \in 1..Len(out) : out[a] = parsed[nth(a)].si
            /\ (strs = << <<"1", ".", "1", ".", "1", ".", "1">>, <<"1", ".", "1", ".", "1", ".", "1", ":", "5", "3">>, <<"t", "l", "s", ":", "/", "/", "1", ".", "1", ".", "1", ".", "1">> >> =>
                  /\ Len(out) = 2
                  /\ out[1].Protocol = "udp" /\ out[1].Address = <<"1", ".", "1", ".", "1", ".", "1", ":", "5", "3">>
                  /\ out[2].Protocol = "dot"
                  /\ ServerInfoString(out[2]) = <<"t", "l", "s", ":", "/", "/", "1", ".", "1", ".", "1", ".", "1", ":", "8", "5", "3">>)

\* The list 1.1.1.1, 1.1.1.1:53, tls://1.1.1.1 has been reduced to two endpoints.
C12_Witness ==
    /\ fn.op = "dedup"
    /\ fn.done
    /\ fn.arg = << <<"1", ".", "1", ".", "1", ".", "1">>, <<"1", ".", "1", ".", "1", ".", "1", ":", "5", "3">>, <<"t", "l", "s", ":", "/", "/", "1", ".", "1", ".", "1", ".", "1">> >>
    /\ Len(fn.out) = 2

\* C13: an endpoint the parser returns round-trips: parsing its String()
\* form succeeds and gives the same transport, address and hostname.
C13_RoundTrip ==
    (fn.op = "parse" /\ fn.done /\ ~fn.out.err) =>
        LET again == parseServerString(ServerInfoString(fn.out.si))
        IN  /\ ~again.err
            /\ again.si.Protocol = fn.out.si.Protocol
            /\ again.si.Address = fn.out.si.Address
            /\ again.si.Hostname = fn.out.si.Hostname

\* C14: a string whose port token is not a port (1.1.1.1:bad, also behind
\* tcp://, tls:// or quic://) parses to the same host with the default port
\* of the transport: 53 for UDP and TCP, 853 for DoT and DoQ.
C14_BadPortFallsBack ==
    (fn.op = "parse" /\ fn.done) =>
        \A k \in 0..Len(KnownPrefixes), h \in { <<"1", ".", "1", ".", "1", ".", "1">>, <<"d", "n", "s", ".", "g", "o", "o", "g", "l", "e">> } :
            LET prefix      == IF k = 0 THEN <<>> ELSE KnownPrefixes[k].prefix
                protocol    == IF k = 0 THEN "udp" ELSE KnownPrefixes[k].protocol
                defaultPort == IF protocol \in {"udp", "tcp"} THEN <<"5", "3">> ELSE <<"8", "5", "3">>
            IN  fn.arg = prefix \o h \o <<":", "b", "a", "d">> =>
                    /\ ~fn.out.err
                    /\ fn.out.si.Protocol = protocol
                    /\ fn.out.si.Hostname = h
                    /\ fn.out.si.Address = h \o <<":">> \o defaultPort

\* A name of labels of letters, digits and inner hyphens, none empty.
WellFormedName(h) ==
    \A l \in {Split(h, ".")[i] : i \in 1..Len(Split(h, "."))} :
        /\ l # <<>>
        /\ \A j \in 1..Len(l) : l[j] \in Letters \cup Digits \cup {"-"}
        /\ l[1] # "-" /\ l[Len(l)] # "-"

\* C15: a host that is not an IP literal is accepted only if it is a
\* well-formed name with at least one dot, or localhost; any other host,
\* such as the single label bad-hostname, makes the parse fail.
C15_SingleLabelRejected ==
    (fn.op = "parse" /\ fn.done) =>
        \A p \in ParsePrefixes, h \in ParseHosts, t \in ParsePorts \ { <<":", "b", "a", "d">> } :
            ( /\ fn.arg = p \o h \o t
              /\ ~ParseIP(Trim(h, {"[", "]"}))
              /\ ~fn.out.err )
            => \/ h = <<"l", "o", "c", "a", "l", "h", "o", "s", "t">>
               \/ (WellFormedName(h) /\ IndexByte(h, ".") # 0)

\* The query returned a response with rcode NOERROR and an answer record.
AnsweredWithRecords(result) ==
    /\ result.Error = "nil"
    /\ result.Response # NoResponse
    /\ result.Response.Rcode = "NOERROR"
    /\ Len(result.Response.Answer) > 0

\* C16: after the outcome of the random-name probe is processed,
\* HijacksNXDOMAIN is true exactly when the response has rcode NOERROR and
\* at least one answer record; an NXDOMAIN response, a NOERROR response
\* without answer and a response with any other rcode give false.
C16_HijackVerdict ==
    (fn.op = "probe" /\ fn.done /\ fn.arg.checkType = "nxdomain") =>
        /\ (fn.out.HijacksNXDOMAIN = Ptr(TRUE)) <=> AnsweredWithRecords(fn.arg.result)
        /\ ( /\ fn.arg.result.Error = "nil"
             /\ fn.arg.result.Response # NoResponse
             /\ ~AnsweredWithRecords(fn.arg.result) )
           => fn.out.HijacksNXDOMAIN = Ptr(FALSE)

\* A NOERROR response with an answer record was processed: hijacking.
C16_Witness ==
    /\ fn.op = "probe"
    /\ fn.done
    /\ fn.arg.checkType = "nxdomain"
    /\ AnsweredWithRecords(fn.arg.result)
    /\ fn.out.HijacksNXDOMAIN = Ptr(TRUE)

DotcomDrained(k) ==
    /\ pc = "chk_drain"
    /\ resultsChan # <<>>
    /\ resultsChan' = Tail(resultsChan)
    /\ Head(resultsChan).checkType = "dotcom"
    /\ ServerString(Head(resultsChan).serverInfo) = k

\* C18: the probe fields of an endpoint are present only for the probes the
\* configuration enables, during the run and after it; DotcomLatency is
\* written only by the drain step that handles the outcome of the dotcom
\* job of the endpoint, and that step leaves it present exactly when the
\* query succeeded.
C18_ProbeFieldsFollowConfig ==
    /\ [](\A k \in DOMAIN Results :
            /\ Results[k].SupportsDNSSEC # Nil => cfg.CheckDNSSEC
            /\ Results[k].HijacksNXDOMAIN # Nil => cfg.CheckNXDOMAIN
            /\ Results[k].BlocksRebinding # Nil => cfg.CheckRebinding
            /\ Results[k].IsAccurate # Nil => cfg.AccuracyCheckFile # ""
            /\ Results[k].DotcomLatency # Nil => cfg.CheckDotcom)
    /\ [][ \A k \in (DOMAIN Results) \cap (DOMAIN Results') :
             /\ DotcomDrained(k) =>
                   (Results'[k].DotcomLatency # Nil <=> Head(resultsChan).result.Error = "nil")
             /\ ~DotcomDrained(k) =>
                   Results'[k].DotcomLatency = Results[k].DotcomLatency ]_vars

\* A run with the dotcom probe alone is over: one endpoint has its dotcom
\* latency, the query of another failed and its field is absent, and no
\* other probe field is present.
C18_Witness ==
    /\ pc = "done"
    /\ cfg.CheckDotcom
    /\ \E k1, k2 \in DOMAIN Results :
          /\ Results[k1].DotcomLatency # Nil
          /\ Results[k2].DotcomLatency = Nil
          /\ Results[k1].SupportsDNSSEC = Nil
          /\ Results[k1].BlocksRebinding = Nil

\* C19: the best server of the summary is nil when no row qualifies
\* (reliability of at least 99 %, and accurate when the accuracy probe is
\* enabled); otherwise it is a qualifying row such that no qualifying row
\* has uncached samples while it has none, none has a smaller uncached
\* mean, and none with the same uncached mean has a smaller cached mean.
C19_BestIsFastest ==
    (fn.op = "rank" /\ fn.done) =>
        LET rows    == fn.out.rows
            hasU(r) == Len(r.UncachedLatencies) > 0
            hasC(r) == Len(r.CachedLatencies) > 0
            qualifying ==
                {i \in 1..Len(rows) :
                    /\ rows[i].Reliability[1] >= 99 * rows[i].Reliability[2]
                    /\ fn.arg.accuracy => rows[i].IsAccurate = Ptr(TRUE)}
        IN  IF qualifying = {} THEN fn.out.bestServer = Nil
            ELSE /\ fn.out.bestServer # Nil
                 /\ LET best == fn.out.bestServer[1]
                    IN  /\ \E i \in qualifying : rows[i] = best
                        /\ \A i \in qualifying :
                              /\ ~(hasU(rows[i]) /\ ~hasU(best))
                              /\ ~( /\ hasU(rows[i]) /\ hasU(best)
                                    /\ rows[i].AvgUncachedLatency < best.AvgUncachedLatency )
                              /\ ~( /\ hasU(rows[i]) /\ hasU(best)
                                    /\ rows[i].AvgUncachedLatency = best.AvgUncachedLatency
                                    /\ hasC(rows[i]) /\ hasC(best)
                                    /\ rows[i].AvgCachedLatency < best.AvgCachedLatency )

\* C20: the rows of the output are the endpoints of the run, each once; the
\* rows with uncached samples come first, in ascending order of uncached
\* mean, rows of equal uncached mean in ascending order of cached mean; an
\* endpoint without any sample, every query of which failed, is among the
\* rows, after every row that has samples.
C20_RowsSorted ==
    (fn.op = "rank" /\ fn.done) =>
        LET rows    == fn.out.rows
            given   == ResultsOf(fn.arg.profiles)
            hasU(r) == Len(r.UncachedLatencies) > 0
            hasC(r) == Len(r.CachedLatencies) > 0
        IN  /\ Len(rows) = Len(given)
            /\ {rows[i] : i \in 1..Len(rows)} = {given[i] : i \in 1..Len(given)}
            /\ \A i, j \in 1..Len(rows) :
                  i < j =>
                     /\ hasU(rows[j]) => hasU(rows[i])
                     /\ (hasU(rows[i]) /\ hasU(rows[j])) =>
                           rows[i].AvgUncachedLatency <= rows[j].AvgUncachedLatency
                     /\ ( /\ hasU(rows[i]) /\ hasU(rows[j])
                          /\ rows[i].AvgUncachedLatency = rows[j].AvgUncachedLatency
                          /\ hasC(rows[i]) /\ hasC(rows[j]) )
                        => rows[i].AvgCachedLatency <= rows[j].AvgCachedLatency
                     /\ (~hasU(rows[i]) /\ ~hasC(rows[i])) =>
                           (~hasU(rows[j]) /\ ~hasC(rows[j]))

\* An endpoint whose only query failed was handed over first and is the
\* last row, after an endpoint that has samples.
C20_Witness ==
    /\ fn.op = "rank"
    /\ fn.done
    /\ Len(fn.arg.profiles) = 2
    /\ fn.arg.profiles[1].u = 0 /\ fn.arg.profiles[1].c = 0 /\ fn.arg.profiles[1].failed
    /\ fn.arg.profiles[2].u > 0
    /\ fn.out.rows[2].Errors = 1
    /\ fn.out.rows[2].UncachedLatencies = <<>>
    /\ fn.out.rows[2].Reliability[1] = 0

\* The columns of a CSV row other than the four latency columns.
NonLatencyColumns(row) == <<row[1]>> \o SubSeq(row, 6, Len(row))

\* C21: two runs over the same endpoints whose queries have the same outcomes
\* write the same CSV rows in the same order, the latency columns set aside,
\* also when endpoints tie on both sort keys or have no samples.
C21_RowsRepeatable ==
    (fn.op = "csv" /\ fn.done) =>
        [i \in 1..Len(fn.out[1]) |-> NonLatencyColumns(fn.out[1][i])]
            = [i \in 1..Len(fn.out[2]) |-> NonLatencyColumns(fn.out[2][i])]

\* C22: when WriteResults fails after the phases have run, the program exits
\* with status 1 only after the pool shutdown has returned: the sweeper has
\* closed the pooled sessions and exited.
C22_WriteErrorShutsPool ==
    pc = "return_write" =>
        /\ exitCode = 1
        /\ shutdown.at = "returned"
        /\ sweeper = "exited"
        /\ connections = EmptyPool

\* The run sent latency queries, WriteResults failed and run has returned.
C22_Witness ==
    /\ pc = "return_write"
    /\ nq.lat > 0
    /\ shutdown.calls = 1

\* C23: when the output writer cannot be created, the program exits with
\* status 1 before any warm-up, latency or probe query has been sent.
C23_NoQueryBeforeWriterFails ==
    pc = "return_getwriter" =>
        /\ exitCode = 1
        /\ nq.warm = 0 /\ nq.lat = 0 /\ nq.chk = 0

\* The steps of a run, in their order: warm-up, Phase 1 with its drain,
\* Phase 2 with its drain, metrics pass, output, teardown, exit.
RunSteps ==
    << {"prewarm"},
       {"latency", "lat_produce", "lat_wait", "lat_drain"},
       {"checks", "chk_produce", "chk_wait", "chk_drain"},
       {"analyze"},
       {"done", "write"},
       {"cleanup", "cleanup_err"},
       {"return_ok", "return_write", "return_getwriter"} >>

StepOf(p) == CHOOSE i \in 1..Len(RunSteps) : p \in RunSteps[i]

\* C28: the run never goes back to an earlier step; a warm-up query is sent
\* only during the warm-up, a latency query only while Phase 1 has workers, a
\* probe query only while Phase 2 has workers and with every latency outcome
\* written to its accumulator, and the pool shutdown moves only in teardown.
C28_StepsInOrder ==
    [][ /\ StepOf(pc') >= StepOf(pc)
        /\ (nq'.warm # nq.warm => pc = "prewarm")
        /\ (nq'.lat # nq.lat => pc \in {"lat_produce", "lat_wait"})
        /\ (nq'.chk # nq.chk =>
              /\ pc \in {"chk_produce", "chk_wait"}
              /\ \A k \in DOMAIN Results :
                    Accounted(Results[k]) = Results[k].TotalQueries)
        /\ (shutdown' # shutdown => pc \in {"cleanup", "cleanup_err"}) ]_vars

\* A run with latency and probe queries has written its output, shut the
\* pool down and returned 0.
C28_Witness ==
    /\ pc = "return_ok"
    /\ nq.lat > 0
    /\ nq.chk > 0
    /\ shutdown.at = "returned"

\* The pooled connection, if any, that holds session sid, as a set of
\* <<address, index>> pairs.
PooledAt(conns, sid) ==
    { <<a, i>> \in UNION { {a} \X (1..Len(conns[a])) : a \in DOMAIN conns } :
        conns[a][i].session = sid }

\* C24: a session that already exists is handed out only if it is pooled, not
\* in use and still open, and the same step marks it in use; so at no time do
\* two callers hold the same session.
C24_HandedOutToOneHolder ==
    /\ [][ \A sid \in 1..Len(sessions) :
              sessions'[sid].holders > sessions[sid].holders =>
                  \E at \in PooledAt(connections, sid) :
                      /\ ~connections[at[1]][at[2]].inUse
                      /\ sessions[sid].open
                      /\ connections'[at[1]][at[2]].inUse
                      /\ connections'[at[1]][at[2]].session = sid ]_vars
    /\ [](\A sid \in 1..Len(sessions) : sessions[sid].holders <= 1)

\* A pooled session is held for the second time, after it was returned.
C24_Witness ==
    /\ Len(sessions) = 1
    /\ sessions[1].holders = 1
    /\ load.addrs = PoolAddrs
    /\ load.gets = MaxGets - 2
    /\ load.returns = MaxGets - 1
    /\ load.fails = MaxDialFailures

\* A step of the sweeper's ticker case: of the steps of the pool, the only
\* one that changes the pool and leaves load, shutdown and cleanupDone alone.
SweeperPassStep ==
    /\ load' = load
    /\ shutdown' = shutdown
    /\ cleanupDone' = cleanupDone

\* C25: a sweeper pass closes and removes exactly the pooled sessions that
\* are not in use and are older than connectionTTL or idle for more than
\* maxIdleTime; a session in use, and every other session, stays as it is.
C25_SweepsExactlyTheExpired ==
    [][ SweeperPassStep =>
          LET expired(conn) ==
                  /\ ~conn.inUse
                  /\ \/ now - conn.createdAt > connectionTTL
                     \/ now - conn.lastUsed > maxIdleTime
              kept(conn) == ~expired(conn)
              swept == SessionsWhere(connections, expired)
          IN  /\ \A a \in DOMAIN connections :
                    ConnsOf(connections', a) = SelectSeq(connections[a], kept)
              /\ DOMAIN connections' \subseteq DOMAIN connections
              /\ \A sid \in 1..Len(sessions) :
                    sessions'[sid] = IF sid \in swept
                                     THEN [sessions[sid] EXCEPT !.open = FALSE]
                                     ELSE sessions[sid] ]_vars

\* A pass has closed an idle session and kept one that is older than
\* connectionTTL but in use: no peer closed a session and no shutdown ran.
C25_Witness ==
    /\ load.addrs = PoolAddrs
    /\ load.closes = MaxPeerCloses
    /\ ~cleanup
    /\ \E sid \in 1..Len(sessions) :
          /\ ~sessions[sid].open
          /\ PooledAt(connections, sid) = {}
    /\ \E a \in DOMAIN connections : \E i \in 1..Len(connections[a]) :
          /\ connections[a][i].inUse
          /\ now - connections[a][i].createdAt > connectionTTL

\* C26: at the step at which shutdownPool returns, every session that
\* getConnection opened is closed and the pool holds no session.
C26_ShutdownClosesEverySession ==
    [][ (shutdown.at = "waiting" /\ shutdown'.at = "returned") =>
            /\ \A sid \in 1..Len(sessions') : ~sessions'[sid].open
            /\ connections' = EmptyPool ]_vars

\* C27: a pooled session whose QUIC connection has closed is never handed
\* out, and a sweeper pass leaves no such session in the pool unless a caller
\* still holds it.
C27_ClosedSessionEvicted ==
    [][ /\ \A sid \in 1..Len(sessions) :
              sessions'[sid].holders > sessions[sid].holders => sessions[sid].open
        /\ SweeperPassStep =>
              \A a \in DOMAIN connections' : \A i \in 1..Len(connections'[a]) :
                  \/ connections'[a][i].inUse
                  \/ sessions'[connections'[a][i].session].open ]_vars

\* C29: once the latency phase is drained, the samples of every endpoint and
\* series are the latencies the transport answered for that endpoint and
\* series, in the order in which it answered.
C29_SamplesInAnswerOrder ==
    AfterLatencyDrain =>
        \A k \in DOMAIN Results :
            /\ Results[k].CachedLatencies = nq.answers[k].Cached
            /\ Results[k].UncachedLatencies = nq.answers[k].Uncached

\* C30: while a DoQ query is past getConnection it holds its session, and
\* when the query has returned, with a result or with an error, no session
\* has a holder and no pooled session is marked in use.
C30_SessionReleasedOnReturn ==
    /\ (\E i \in 1..Len(DoQStages) : q.stage = DoQStages[i]) =>
          sessions[q.session].holders = 1
    /\ q.stage = "done" =>
          /\ \A sid \in 1..Len(sessions) : sessions[sid].holders = 0
          /\ \A a \in DOMAIN connections : \A i \in 1..Len(connections[a]) :
                ~connections[a][i].inUse

\* A query that held a pooled session has returned an error, and the
\* session is still pooled.
C30_Witness ==
    /\ q.stage = "done"
    /\ q.error = "failed"
    /\ q.session # 0
    /\ PooledAt(connections, q.session) # {}

====
